---- MODULE Spec2Model ----
(***************************************************************************)
(* AtomicDisk protected file system (core/src/pfs): the file engine over a *)
(* data partition and a recovery journal.  The open path, the journal and  *)
(* its replay follow the Rust sources; the write, read, cache and flush    *)
(* paths follow the design document where their sources are absent.        *)
(***************************************************************************)
EXTENDS Integers, Sequences, FiniteSets, TLC

(***************************************************************************)
(* Program constants                                                       *)
(***************************************************************************)
BLOCK_SIZE == 4096
NODE_SIZE == 4096
SE_PAGE_SIZE == 4096
MD_USER_DATA_SIZE == 3072
ATTACHED_DATA_NODES_COUNT == 96
CHILD_MHT_NODES_COUNT == 32
U64_SIZE == 8
RECOVERY_NODE_SIZE == U64_SIZE + NODE_SIZE
INNER_OFFSET == 1 * BLOCK_SIZE
DEFAULT_BUF_SIZE == 4 * 1024 * 1024
DEFAULT_CACHE_SIZE == 48 * SE_PAGE_SIZE

(***************************************************************************)
(* Bounds of the model                                                     *)
(***************************************************************************)
\* highest data-logical node number a write may touch
MaxData == 1
\* number of write calls in one run
MaxWrites == 3
\* number of flush calls that find something dirty in one run
MaxFlush == 3
\* number of process kills in one run
MaxCrash == 2
\* number of back-door modifications of the data partition in one run
MaxTamper == 1

\* user data is tracked in cells of a quarter node: 3 cells inline, 4 per node
CELL == NODE_SIZE \div 4
InlineCells == 0 .. (MD_USER_DATA_SIZE \div CELL) - 1
NodeCells == 0 .. (NODE_SIZE \div CELL) - 1
LastCell == (MD_USER_DATA_SIZE + (MaxData + 1) * NODE_SIZE) \div CELL - 1
AllCells == 0 .. LastCell

(***************************************************************************)
(* Node numbering (host/mod.rs)                                            *)
(***************************************************************************)
\* a numbering that does not count the MHT nodes lying between the data nodes
get_node_numbers_flat(offset) ==
    IF offset < MD_USER_DATA_SIZE
    THEN [mht_logic |-> 0, data_logic |-> 0, mht_phys |-> 0, data_phys |-> 0]
    ELSE LET data_logic_number == (offset - MD_USER_DATA_SIZE) \div NODE_SIZE
             mht_logic_number == data_logic_number \div ATTACHED_DATA_NODES_COUNT
             data_physical_number == data_logic_number + 1 + 1
             mht_physical_number ==
                 data_physical_number
                     - (data_logic_number % ATTACHED_DATA_NODES_COUNT) - 1
         IN [mht_logic |-> mht_logic_number, data_logic |-> data_logic_number,
             mht_phys |-> mht_physical_number, data_phys |-> data_physical_number]

get_node_numbers(offset) ==
    IF offset < MD_USER_DATA_SIZE
    THEN [mht_logic |-> 0, data_logic |-> 0, mht_phys |-> 0, data_phys |-> 0]
    ELSE LET data_logic_number == (offset - MD_USER_DATA_SIZE) \div NODE_SIZE
             mht_logic_number == data_logic_number \div ATTACHED_DATA_NODES_COUNT
             data_physical_number == data_logic_number + 1 + 1 + mht_logic_number
             mht_physical_number ==
                 data_physical_number
                     - (data_logic_number % ATTACHED_DATA_NODES_COUNT) - 1
         IN [mht_logic |-> mht_logic_number, data_logic |-> data_logic_number,
             mht_phys |-> mht_physical_number, data_phys |-> data_physical_number]

get_data_node_numbers(offset) ==
    LET n == get_node_numbers(offset)
    IN [logic |-> n.data_logic, physical |-> n.data_phys]

\* physical number of the data node with data-logical number dl
DataPhys(dl) == get_node_numbers(MD_USER_DATA_SIZE + dl * NODE_SIZE).data_phys

\* the blocks of the data partition the bounded inputs can reach
DataBlocks == {DataPhys(dl) : dl \in 0 .. MaxData}
PhysBlocks == {0, 1} \cup DataBlocks

\* RecoveryHandler::is_mht_node: the metadata block and the MHT blocks are
\* collected as raw images, every other block is a data node
is_mht_node(n) == n = 0 \/ (n - 1) % (ATTACHED_DATA_NODES_COUNT + 1) = 0

is_data_node(n) == ~is_mht_node(n)

(***************************************************************************)
(* Blocks, AEAD and node images                                            *)
(***************************************************************************)
ZeroBlock == [kind |-> "zero"]
BadBlock == [kind |-> "bad"]

ZeroData == [c \in NodeCells |-> 0]
ZeroInline == [c \in InlineCells |-> 0]

EmptyEntry == [key |-> 0, mac |-> ZeroBlock]
EmptyMht == [p \in DataBlocks |-> EmptyEntry]

\* aead_encrypt: the ciphertext is determined by key, AAD (physical number)
\* and plaintext; the MAC identifies exactly that ciphertext
Encrypt(key, phys, pt) == [kind |-> "node", k |-> key, n |-> phys, pt |-> pt]
MacOf(ct) == ct

\* aead_decrypt succeeds only on the ciphertext the (key, mac) pair was made for
DecryptOk(ct, key, mac, phys) ==
    /\ ct.kind = "node"
    /\ mac.kind = "node"
    /\ ct = mac
    /\ ct.k = key
    /\ ct.n = phys

\* metadata encrypted payload
MetaPayload(name, size, mkey, mgmac, data) ==
    [file_name |-> name, size |-> size, mht_key |-> mkey, mht_gmac |-> mgmac,
     data |-> data]

MetaEncrypt(key, payload) == [kind |-> "menc", k |-> key, pl |-> payload]

\* metadata block: plaintext header and encrypted payload
MetaBlock(flag, eflags, enc) ==
    [kind |-> "meta", update_flag |-> flag, encrypt_flags |-> eflags, enc |-> enc]

(***************************************************************************)
(* Journal partition (host/journal.rs)                                     *)
(* On disk: jhdr is the u64 of block 0, the record stream starts at        *)
(* INNER_OFFSET.  The stream is kept as the sequence of records that lie   *)
(* there.  A record whose leading bytes were overwritten by a later,       *)
(* shorter write stays as a record of flag 2 that remembers the original   *)
(* record and how many bytes of it are gone.                               *)
(***************************************************************************)
NodeRec(num, data) == [flag |-> 0, num |-> num, data |-> data, skip |-> 0]
CommitRec == [flag |-> 1, num |-> 0, data |-> ZeroBlock, skip |-> 0]
TornRec(rec, skip) == [flag |-> 2, num |-> rec.num, data |-> rec.data, skip |-> skip]

\* a Node record is flag, number, node image; a Commit record is the flag alone
RecLen(r) ==
    IF r.flag = 1 THEN 1 ELSE 1 + RECOVERY_NODE_SIZE - r.skip

\* the first byte stored at the record: its flag, or for a cut Node record a
\* byte of the little-endian node number, or (255) a byte of the node image
ByteAt(r) ==
    IF r.flag # 2 THEN r.flag
    ELSE IF r.skip = 1 THEN r.num % 256
    ELSE IF r.skip <= U64_SIZE THEN (r.num \div 256) % 256
    ELSE 255

RECURSIVE BytesOf(_)
BytesOf(s) == IF s = <<>> THEN 0 ELSE RecLen(Head(s)) + BytesOf(Tail(s))

RECURSIVE TakeBytes(_, _)
TakeBytes(log, pos) ==
    IF pos <= 0 \/ log = <<>> THEN <<>>
    ELSE IF RecLen(Head(log)) <= pos
         THEN <<Head(log)>> \o TakeBytes(Tail(log), pos - RecLen(Head(log)))
         ELSE <<>>

RECURSIVE DropBytes(_, _)
DropBytes(log, n) ==
    IF n <= 0 THEN log
    ELSE IF log = <<>> THEN <<>>
    ELSE IF RecLen(Head(log)) <= n
         THEN DropBytes(Tail(log), n - RecLen(Head(log)))
         ELSE <<TornRec(Head(log), Head(log).skip + n)>> \o Tail(log)

\* BlockSet::write_slice of the journal region, offset counted from the region start
write_slice(log, offset, buf) ==
    LET pos == offset - INNER_OFFSET
    IN TakeBytes(log, pos) \o buf \o DropBytes(log, pos + BytesOf(buf))

\* RawJournal::size: Err when the header is below INNER_OFFSET
journal_size(hdr) ==
    IF hdr >= INNER_OFFSET THEN [ok |-> TRUE, size |-> hdr - INNER_OFFSET]
    ELSE [ok |-> FALSE, size |-> 0]

(***************************************************************************)
(* Recovery (host/journal.rs recovery, host/mod.rs RecoveryHandler)        *)
(***************************************************************************)
\* the flag byte a reader finds at the head of the stream; unwritten space is zero
FlagAt(log) == IF log = <<>> THEN 0 ELSE ByteAt(Head(log))

\* first pass: find the offset after the last Commit marker
RECURSIVE FirstPass(_, _, _, _)
FirstPass(log, offset, log_size, last_commit_offset) ==
    IF offset >= log_size THEN [ok |-> TRUE, last_commit_offset |-> last_commit_offset]
    ELSE IF FlagAt(log) = 0
         THEN FirstPass(DropBytes(log, 1 + RECOVERY_NODE_SIZE),
                        offset + 1 + RECOVERY_NODE_SIZE, log_size, last_commit_offset)
    ELSE IF FlagAt(log) = 1
         THEN FirstPass(DropBytes(log, 1), offset + 1, log_size, offset + 1)
    ELSE [ok |-> FALSE, last_commit_offset |-> last_commit_offset]

\* RecoveryHandler::get_mht_node: the MHT plaintext rebuilt from the collected raw
\* images; every unwrap is a panic
RECURSIVE get_mht_node(_, _)
get_mht_node(raw_mhts, logical_number) ==
    IF logical_number = 0
    THEN IF ~({0, 1} \subseteq DOMAIN raw_mhts) THEN [panic |-> TRUE, pt |-> EmptyMht]
         ELSE LET meta == raw_mhts[0]
                  root == raw_mhts[1]
              IN IF meta.kind = "meta" /\ meta.enc.kind = "menc" /\ meta.enc.k = 0
                    /\ DecryptOk(root, meta.enc.pl.mht_key, meta.enc.pl.mht_gmac, 1)
                 THEN [panic |-> FALSE, pt |-> root.pt]
                 ELSE [panic |-> TRUE, pt |-> EmptyMht]
    ELSE LET physical_number == 1 + logical_number * (ATTACHED_DATA_NODES_COUNT + 1)
             parent == get_mht_node(raw_mhts, (logical_number - 1) \div CHILD_MHT_NODES_COUNT)
         IN IF parent.panic \/ physical_number \notin DOMAIN raw_mhts
               \/ physical_number \notin DOMAIN parent.pt
            THEN [panic |-> TRUE, pt |-> EmptyMht]
            ELSE LET e == parent.pt[physical_number]
                     ct == raw_mhts[physical_number]
                 IN IF DecryptOk(ct, e.key, e.mac, physical_number)
                    THEN [panic |-> FALSE, pt |-> ct.pt]
                    ELSE [panic |-> TRUE, pt |-> EmptyMht]

\* RecoveryHandler::decrypt_node
decrypt_node(raw_mhts, disk_physical_number, node) ==
    LET nums == get_data_node_numbers(disk_physical_number * NODE_SIZE)
    IN IF nums.physical # disk_physical_number THEN [panic |-> TRUE, pt |-> ZeroData]
       ELSE LET mht == get_mht_node(raw_mhts, nums.logic)
            IN IF mht.panic \/ nums.physical \notin DOMAIN mht.pt
               THEN [panic |-> TRUE, pt |-> ZeroData]
               ELSE LET e == mht.pt[nums.physical]
                    IN IF DecryptOk(node, e.key, e.mac, nums.physical)
                       THEN [panic |-> FALSE, pt |-> node.pt]
                       ELSE [panic |-> TRUE, pt |-> ZeroData]

\* second pass: st = [disk, raw_mhts, rollback_nodes, out].  A Node flag read
\* inside a cut record is followed by eight bytes that end in a byte of the
\* node image: the number read is no node of the file, so decrypt_node's
\* assertion fails or, for a number not decrypted, source.write does.
RECURSIVE SecondPass(_, _, _, _, _)
SecondPass(log, offset, log_size, last_commit_offset, st) ==
    IF offset >= log_size \/ log_size - offset < 1 THEN st
    ELSE LET left_size == log_size - offset - 1
             next == offset + 1 + RECOVERY_NODE_SIZE
         IN IF FlagAt(log) \notin {0, 1} THEN [st EXCEPT !.out = "panic"]
            ELSE IF FlagAt(log) = 1
                 THEN SecondPass(DropBytes(log, 1), offset + 1, log_size,
                                 last_commit_offset, st)
            ELSE IF left_size < RECOVERY_NODE_SIZE THEN st
            ELSE IF log # <<>> /\ Head(log).flag = 2
                 THEN [st EXCEPT !.out = IF next >= last_commit_offset
                                         THEN "panic" ELSE "err"]
            ELSE LET r == IF log = <<>> THEN NodeRec(0, ZeroBlock) ELSE Head(log)
                     n == r.num
                     raw == IF is_mht_node(n)
                            THEN [p \in DOMAIN st.raw_mhts \cup {n} |->
                                     IF p = n THEN r.data ELSE st.raw_mhts[p]]
                            ELSE st.raw_mhts
                     fresh == /\ next >= last_commit_offset
                              /\ n \notin DOMAIN st.rollback_nodes
                              /\ ~is_mht_node(n)
                     dn == decrypt_node(raw, n, r.data)
                 IN IF fresh /\ dn.panic
                    THEN [st EXCEPT !.raw_mhts = raw, !.out = "panic"]
                    ELSE IF n \notin DOMAIN st.disk
                    THEN [st EXCEPT !.raw_mhts = raw, !.out = "err"]
                    ELSE SecondPass(DropBytes(log, 1 + RECOVERY_NODE_SIZE), next,
                           log_size, last_commit_offset,
                           [disk |-> [st.disk EXCEPT ![n] = r.data],
                            raw_mhts |-> raw,
                            rollback_nodes |->
                                IF fresh
                                THEN [p \in DOMAIN st.rollback_nodes \cup {n} |->
                                         IF p = n THEN dn.pt ELSE st.rollback_nodes[p]]
                                ELSE st.rollback_nodes,
                            out |-> st.out])

\* a recovery that replays whatever lies in the record stream, whatever the
\* length header says
recovery_ignoring_length(source, hdr, log) ==
    SecondPass(log, 0, BytesOf(log), 0,
               [disk |-> source, raw_mhts |-> <<>>, rollback_nodes |-> <<>>,
                out |-> "ok"])

\* a recovery that takes a block already holding the image it is about to get
\* for one to erase
recovery_erasing(source, hdr, log) ==
    LET sz == journal_size(hdr)
        st0 == [disk |-> source, raw_mhts |-> <<>>, rollback_nodes |-> <<>>, out |-> "ok"]
        p1 == FirstPass(log, 0, sz.size, 0)
        r == IF ~sz.ok THEN [st0 EXCEPT !.out = "err"]
             ELSE IF ~p1.ok THEN [st0 EXCEPT !.out = "panic"]
             ELSE SecondPass(log, 0, sz.size, p1.last_commit_offset, st0)
        named == {log[i].num : i \in {j \in DOMAIN log : log[j].flag = 0}}
    IN [r EXCEPT !.disk = [b \in DOMAIN r.disk |->
                              IF b \in named /\ source[b] = r.disk[b]
                              THEN ZeroBlock ELSE r.disk[b]]]

\* the data partition when a recovery is cut off after the records up to
\* offset cut of the log: the writes of the second pass made so far
recovery_until(source, hdr, log, cut) ==
    LET sz == journal_size(hdr)
        st0 == [disk |-> source, raw_mhts |-> <<>>, rollback_nodes |-> <<>>, out |-> "ok"]
    IN IF ~sz.ok THEN source
       ELSE LET p1 == FirstPass(log, 0, sz.size, 0)
            IN IF ~p1.ok THEN source
               ELSE SecondPass(log, 0, IF cut < sz.size THEN cut ELSE sz.size,
                               p1.last_commit_offset, st0).disk

\* recovery(source, journal): [out, disk, rollback_nodes]
recovery(source, hdr, log) ==
    LET sz == journal_size(hdr)
        st0 == [disk |-> source, raw_mhts |-> <<>>, rollback_nodes |-> <<>>, out |-> "ok"]
    IN IF ~sz.ok THEN [st0 EXCEPT !.out = "err"]
       ELSE LET p1 == FirstPass(log, 0, sz.size, 0)
            IN IF ~p1.ok THEN [st0 EXCEPT !.out = "panic"]
               ELSE SecondPass(log, 0, sz.size, p1.last_commit_offset, st0)

(***************************************************************************)
(* Open (file/open.rs)                                                     *)
(***************************************************************************)
\* the file every run works on: PfsDisk's default path, the all-zero user key
FileName == "pfsdisk"

\* the names a file is created and opened under
Names == {FileName, "alpha"}

\* OpenOptions: every value of the four flags open looks at
OpenOptions == [read : BOOLEAN, write : BOOLEAN, append : BOOLEAN, update : BOOLEAN]

\* PfsDisk's options: read and write
PfsDiskOptions == [read |-> TRUE, write |-> TRUE, append |-> FALSE, update |-> FALSE]

\* OpenOptions::check
OpenOptions_check(opts) ==
    IF \/ (opts.read /\ ~opts.write /\ ~opts.append)
       \/ (~opts.read /\ opts.write /\ ~opts.append)
       \/ (~opts.read /\ ~opts.write /\ opts.append)
    THEN "Ok" ELSE "EINVAL"

\* a cache size argument: <<>> is None, <<n>> is Some(n)
CacheSizes == {<<>>, <<0>>, <<1>>, <<SE_PAGE_SIZE - 1>>, <<SE_PAGE_SIZE>>,
               <<SE_PAGE_SIZE + 1>>, <<2 * SE_PAGE_SIZE>>}

\* FileInner::check_cache_size: is_page_aligned!, then the number of pages
check_cache_size(cache_size) ==
    LET v == IF cache_size = <<>> THEN DEFAULT_CACHE_SIZE ELSE cache_size[1]
    IN IF v % SE_PAGE_SIZE = 0
       THEN [ok |-> TRUE, pages |-> v \div SE_PAGE_SIZE]
       ELSE [ok |-> FALSE, pages |-> 0]
DefaultKey == 0
EncryptFlagsUserKey == 1

\* OpenMode::UserKey(AeadKey::default())
UserKeyMode == [key |-> DefaultKey, eflags |-> EncryptFlagsUserKey]

NewRoot == [pt |-> EmptyMht, need_writing |-> FALSE, new_node |-> TRUE]

\* MetadataInfo: plaintext header, encrypted payload as last encrypted or read,
\* and the decrypted payload (encrypted_plain)
NewMetadata(name, eflags) ==
    [update_flag |-> 0, encrypt_flags |-> eflags, enc |-> ZeroBlock,
     plain |-> MetaPayload(name, 0, 0, ZeroBlock, ZeroInline), new_node |-> TRUE]

NullMetadata == NewMetadata("", 0)

\* an open_file that starts from an empty root MHT instead of reading block 1
open_file_without_root(host_file, file_name, key, eflags) ==
    LET b == host_file[0]
        fail(e) == [err |-> e, metadata |-> NullMetadata, root_mht |-> NewRoot]
    IN IF b.kind # "meta" THEN fail("NotSgxFile")
       ELSE IF b.update_flag # 0 THEN fail("RecoveryNeeded")
       ELSE IF b.encrypt_flags # eflags THEN fail("EINVAL")
       ELSE IF ~(b.enc.kind = "menc" /\ b.enc.k = key) THEN fail("MacMismatch")
       ELSE IF b.enc.pl.file_name # file_name THEN fail("NameMismatch")
       ELSE [err |-> "Ok",
             metadata |-> [update_flag |-> b.update_flag,
                           encrypt_flags |-> b.encrypt_flags,
                           enc |-> b.enc, plain |-> b.enc.pl, new_node |-> FALSE],
             root_mht |-> NewRoot]

\* an open_file that takes a root MHT it cannot verify for an empty one
open_file_unverified_root(host_file, file_name, key, eflags) ==
    LET r == open_file_without_root(host_file, file_name, key, eflags)
    IN IF r.err = "Ok" /\ r.metadata.plain.size > MD_USER_DATA_SIZE
          /\ DecryptOk(host_file[1], r.metadata.plain.mht_key,
                       r.metadata.plain.mht_gmac, 1)
       THEN [r EXCEPT !.root_mht = [pt |-> host_file[1].pt, need_writing |-> FALSE,
                                    new_node |-> FALSE]]
       ELSE r

\* an open_file that reads and decrypts the root MHT whatever the size is
open_file_always_root(host_file, file_name, key, eflags) ==
    LET r == open_file_without_root(host_file, file_name, key, eflags)
    IN IF r.err # "Ok" THEN r
       ELSE IF DecryptOk(host_file[1], r.metadata.plain.mht_key,
                         r.metadata.plain.mht_gmac, 1)
       THEN [r EXCEPT !.root_mht = [pt |-> host_file[1].pt, need_writing |-> FALSE,
                                    new_node |-> FALSE]]
       ELSE [err |-> "MacMismatch", metadata |-> NullMetadata, root_mht |-> NewRoot]

\* an open_file that does not look at update_flag
open_file_any_flag(host_file, file_name, key, eflags) ==
    LET b == host_file[0]
        fail(e) == [err |-> e, metadata |-> NullMetadata, root_mht |-> NewRoot]
    IN IF b.kind # "meta" THEN fail("NotSgxFile")
       ELSE IF b.encrypt_flags # eflags THEN fail("EINVAL")
       ELSE IF ~(b.enc.kind = "menc" /\ b.enc.k = key) THEN fail("MacMismatch")
       ELSE IF b.enc.pl.file_name # file_name THEN fail("NameMismatch")
       ELSE LET md == [update_flag |-> b.update_flag, encrypt_flags |-> b.encrypt_flags,
                       enc |-> b.enc, plain |-> b.enc.pl, new_node |-> FALSE]
            IN IF md.plain.size > MD_USER_DATA_SIZE
               THEN IF DecryptOk(host_file[1], md.plain.mht_key, md.plain.mht_gmac, 1)
                    THEN [err |-> "Ok", metadata |-> md,
                          root_mht |-> [pt |-> host_file[1].pt, need_writing |-> FALSE,
                                        new_node |-> FALSE]]
                    ELSE fail("MacMismatch")
               ELSE [err |-> "Ok", metadata |-> md, root_mht |-> NewRoot]

\* an open_file that does not compare the stored name with the opener's
open_file_any_name(host_file, file_name, key, eflags) ==
    LET b == host_file[0]
    IN IF b.kind = "meta" /\ b.update_flag = 0 /\ b.encrypt_flags = eflags
          /\ b.enc.kind = "menc" /\ b.enc.k = key
       THEN open_file_unverified_root(host_file, b.enc.pl.file_name, key, eflags)
       ELSE open_file_without_root(host_file, file_name, key, eflags)

\* FileInner::open_file
open_file(host_file, file_name, key, eflags) ==
    LET b == host_file[0]
        fail(e) == [err |-> e, metadata |-> NullMetadata, root_mht |-> NewRoot]
    IN IF b.kind # "meta" THEN fail("NotSgxFile")
       ELSE IF b.update_flag # 0 THEN fail("RecoveryNeeded")
       ELSE IF b.encrypt_flags # eflags THEN fail("EINVAL")
       ELSE IF ~(b.enc.kind = "menc" /\ b.enc.k = key) THEN fail("MacMismatch")
       ELSE IF b.enc.pl.file_name # file_name THEN fail("NameMismatch")
       ELSE LET md == [update_flag |-> b.update_flag, encrypt_flags |-> b.encrypt_flags,
                       enc |-> b.enc, plain |-> b.enc.pl, new_node |-> FALSE]
            IN IF md.plain.size > MD_USER_DATA_SIZE
               THEN IF DecryptOk(host_file[1], md.plain.mht_key, md.plain.mht_gmac, 1)
                    THEN [err |-> "Ok", metadata |-> md,
                          root_mht |-> [pt |-> host_file[1].pt, need_writing |-> FALSE,
                                        new_node |-> FALSE]]
                    ELSE fail("MacMismatch")
               ELSE [err |-> "Ok", metadata |-> md, root_mht |-> NewRoot]

\* a cached node
CacheNode(phys, pt, dirty, new) ==
    [phys |-> phys, pt |-> pt, need_writing |-> dirty, new_node |-> new]

\* FileInner::rollback_nodes: every rolled-back data node replaces its cache entry
RECURSIVE rollback_nodes(_, _)
rollback_nodes(rb, todo) ==
    IF todo = {} THEN <<>>
    ELSE LET n == CHOOSE x \in todo : \A y \in todo : x <= y
         IN <<CacheNode(n, rb[n], FALSE, FALSE)>> \o rollback_nodes(rb, todo \ {n})

\* an offset that starts at the end of the file whenever append is asked for
open_offset_on_append(opts, metadata) ==
    IF opts.append THEN metadata.plain.size ELSE 0

\* FileInner::open, the offset of the new handle
open_offset(opts, metadata) ==
    IF opts.append /\ ~opts.update THEN metadata.plain.size ELSE 0

\* FileInner::open: [err, disk, metadata, root_mht, cache, max_cache_page, offset]
FileInner_open(path, disk0, hdr, log, opts, mode, cache_size) ==
    LET fail(e, d) == [err |-> e, disk |-> d, metadata |-> NullMetadata,
                       root_mht |-> NewRoot, cache |-> <<>>, max_cache_page |-> 0,
                       offset |-> 0]
        cs == check_cache_size(cache_size)
        r1 == open_file(disk0, path, mode.key, mode.eflags)
    IN IF ~cs.ok THEN fail("EINVAL", disk0)
       ELSE IF r1.err \notin {"Ok", "RecoveryNeeded"} THEN fail(r1.err, disk0)
       ELSE LET rec == recovery(disk0, hdr, log)
            IN IF rec.out = "panic" THEN fail("Panic", rec.disk)
               ELSE IF rec.out = "err" THEN fail("InvalidArgs", rec.disk)
               ELSE LET r2 == open_file(rec.disk, path, mode.key, mode.eflags)
                    IN IF r2.err # "Ok" THEN fail(r2.err, rec.disk)
                       ELSE [err |-> "Ok", disk |-> rec.disk, metadata |-> r2.metadata,
                             root_mht |-> r2.root_mht,
                             cache |-> rollback_nodes(rec.rollback_nodes,
                                                      DOMAIN rec.rollback_nodes),
                             max_cache_page |-> cs.pages,
                             offset |-> open_offset(opts, r2.metadata)]

\* FileInner::create: [err, metadata, root_mht, cache, max_cache_page, need_writing, offset]
FileInner_create(path, opts, mode, cache_size) ==
    LET cs == check_cache_size(cache_size)
    IN IF ~cs.ok
       THEN [err |-> "EINVAL", metadata |-> NullMetadata, root_mht |-> NewRoot,
             cache |-> <<>>, max_cache_page |-> 0, need_writing |-> FALSE, offset |-> 0]
       ELSE [err |-> "Ok", metadata |-> NewMetadata(path, mode.eflags),
             root_mht |-> NewRoot, cache |-> <<>>, max_cache_page |-> cs.pages,
             need_writing |-> TRUE, offset |-> 0]

(***************************************************************************)
(* Page cache and node access (design document 4.6, 4.7)                   *)
(* The cache is a sequence in LRU order, most recently used first.         *)
(***************************************************************************)
CacheIndex(c, phys) ==
    IF \E i \in 1 .. Len(c) : c[i].phys = phys
    THEN CHOOSE i \in 1 .. Len(c) : c[i].phys = phys
    ELSE 0

RemoveAt(c, i) == SubSeq(c, 1, i - 1) \o SubSeq(c, i + 1, Len(c))

\* an eviction that takes the least recently used entry, dirty or not
OldestEntry(c) == Len(c)

\* index of the least recently used entry that is not dirty, 0 when all are dirty
OldestClean(c) ==
    IF \E i \in 1 .. Len(c) : ~c[i].need_writing
    THEN CHOOSE i \in 1 .. Len(c) :
             /\ ~c[i].need_writing
             /\ \A j \in 1 .. Len(c) : ~c[j].need_writing => j <= i
    ELSE 0

\* insert beyond capacity evicts the oldest clean entry, or fails
cache_insert(c, node, cap) ==
    IF Len(c) < cap THEN [ok |-> TRUE, cache |-> <<node>> \o c]
    ELSE LET i == OldestClean(c)
         IN IF i = 0 THEN [ok |-> FALSE, cache |-> c]
            ELSE [ok |-> TRUE, cache |-> <<node>> \o RemoveAt(c, i)]

\* fetch or create the data node; on success it is the head of the cache
get_data_node(c, root, host_file, cap, phys) ==
    LET i == CacheIndex(c, phys)
    IN IF i # 0 THEN [err |-> "Ok", cache |-> <<c[i]>> \o RemoveAt(c, i)]
       ELSE LET e == root.pt[phys]
                absent == e = EmptyEntry
            IN IF ~absent /\ ~DecryptOk(host_file[phys], e.key, e.mac, phys)
               THEN [err |-> "MacMismatch", cache |-> c]
               ELSE LET node == IF absent THEN CacheNode(phys, ZeroData, FALSE, TRUE)
                                ELSE CacheNode(phys, host_file[phys].pt, FALSE, FALSE)
                        ins == cache_insert(c, node, cap)
                    IN IF ins.ok THEN [err |-> "Ok", cache |-> ins.cache]
                       ELSE [err |-> "Unexpected", cache |-> c]

\* what a read of cell c returns in the given handle state; -1 is a failed read
ReadCell(md, root, c_, host_file, c) ==
    IF c * CELL >= md.plain.size THEN 0
    ELSE IF c \in InlineCells THEN md.plain.data[c]
    ELSE LET phys == get_node_numbers(c * CELL).data_phys
             k == ((c * CELL - MD_USER_DATA_SIZE) % NODE_SIZE) \div CELL
             i == CacheIndex(c_, phys)
             e == root.pt[phys]
         IN IF i # 0 THEN c_[i].pt[k]
            ELSE IF e = EmptyEntry THEN 0
            ELSE IF DecryptOk(host_file[phys], e.key, e.mac, phys)
                 THEN host_file[phys].pt[k]
                 ELSE -1

\* file_size() and read_at(0, size) of a handle
FileView(md, root, c_, host_file) ==
    [size |-> md.plain.size,
     cells |-> [c \in AllCells |-> ReadCell(md, root, c_, host_file, c)]]

EmptyView == [size |-> 0, cells |-> [c \in AllCells |-> 0]]

(***************************************************************************)
(* Write path (design document 4.7)                                        *)
(***************************************************************************)
\* the (offset, length) pairs a write call is tried with
WriteInputs ==
    {[off |-> 2 * CELL, len |-> 2 * CELL],
     [off |-> MD_USER_DATA_SIZE, len |-> (MaxData + 1) * NODE_SIZE],
     [off |-> MD_USER_DATA_SIZE + MaxData * NODE_SIZE, len |-> NODE_SIZE]}

Covered(off, len, c) == off <= c * CELL /\ c * CELL < off + len

Max(a, b) == IF a >= b THEN a ELSE b
Min(a, b) == IF a <= b THEN a ELSE b

\* the chunks of a write that fall into data nodes, in ascending order;
\* st = [cache, size, err]
RECURSIVE write_nodes(_, _, _, _, _, _, _, _)
write_nodes(st, root, host_file, cap, off, len, val, dl) ==
    LET base == MD_USER_DATA_SIZE + dl * NODE_SIZE
    IN IF st.err # "Ok" \/ base >= off + len THEN st
       ELSE IF base + NODE_SIZE <= off
            THEN write_nodes(st, root, host_file, cap, off, len, val, dl + 1)
       ELSE LET phys == get_node_numbers(Max(off, base)).data_phys
                g == get_data_node(st.cache, root, host_file, cap, phys)
            IN IF g.err # "Ok" THEN [st EXCEPT !.err = g.err]
               ELSE LET node == Head(g.cache)
                        pt == [k \in NodeCells |->
                                  IF Covered(off, len, (base \div CELL) + k) THEN val
                                  ELSE node.pt[k]]
                        upd == [node EXCEPT !.pt = pt, !.need_writing = TRUE]
                    IN write_nodes([cache |-> <<upd>> \o Tail(g.cache),
                                    size |-> Max(st.size, Min(off + len, base + NODE_SIZE)),
                                    err |-> "Ok"],
                                   root, host_file, cap, off, len, val, dl + 1)

(***************************************************************************)
(* BlockFile (host/block_file.rs)                                          *)
(* A buffer is [len, fill]: len bytes, all equal to fill; a block of the   *)
(* raw disk is the byte it is filled with.                                 *)
(***************************************************************************)
\* last block of the raw disk
MaxRawBlock == 1
\* largest byte a buffer is filled with
MaxFill == 2

RawBlocks == 0 .. MaxRawBlock
BufLens == {0, NODE_SIZE - 1, NODE_SIZE, NODE_SIZE + 1, 2 * NODE_SIZE}
Buffers == [len : BufLens, fill : 1 .. MaxFill]

\* BlockFile::create
BlockFile_create(raw_disk) ==
    [raw_disk |-> raw_disk, size |-> Cardinality(DOMAIN raw_disk) * NODE_SIZE]

\* BlockFile::read: [file, buf, err]
BlockFile_read(f, number, buf) ==
    IF buf.len # NODE_SIZE
    THEN [file |-> f, buf |-> buf, err |-> "NotBlockSizeAligned"]
    ELSE [file |-> f, buf |-> [buf EXCEPT !.fill = f.raw_disk[number]], err |-> "Ok"]

\* a write that hands the buffer to the raw disk whatever its length
BlockFile_write_unchecked(f, number, buf) ==
    [file |-> [raw_disk |-> [f.raw_disk EXCEPT ![number] = buf.fill],
               size |-> IF (number + 1) * NODE_SIZE > f.size
                        THEN (number + 1) * NODE_SIZE ELSE f.size],
     buf |-> buf, err |-> "Ok"]

\* BlockFile::write: [file, buf, err]
BlockFile_write(f, number, buf) ==
    IF buf.len # NODE_SIZE
    THEN [file |-> f, buf |-> buf, err |-> "NotBlockSizeAligned"]
    ELSE [file |-> [raw_disk |-> [f.raw_disk EXCEPT ![number] = buf.fill],
                    size |-> IF (number + 1) * NODE_SIZE > f.size
                             THEN (number + 1) * NODE_SIZE ELSE f.size],
          buf |-> buf, err |-> "Ok"]

(***************************************************************************)
(* State                                                                   *)
(***************************************************************************)
VARIABLES
    disk,           \* data partition: block number -> block
    jhdr,           \* journal partition, block 0: the length header
    jlog,           \* journal partition, record stream from INNER_OFFSET
    pc,             \* "idle", a flush step "f6" .. "f10", or "down" (no handle)
    metadata,       \* FileInner.metadata
    root_mht,       \* FileInner.root_mht
    cache,          \* FileInner.cache
    need_writing,   \* FileInner.need_writing
    status,         \* FileInner.status
    last_error,     \* FileInner.last_error
    max_cache_page, \* FileInner.max_cache_page
    jbuf,           \* RawJournal.buf
    flush_pos,      \* RawJournal.flush_pos
    fq,             \* dirty nodes the running flush has still to encrypt and write
    rng,            \* number of node keys drawn from the random source
    hist,           \* per block, the ciphertexts earlier flushes wrote there
    T1,             \* file view at the last completed flush
    T2,             \* file view the running (or last started) flush writes
    nflushed,       \* completed flushes
    lastOp,         \* the last operation: create, write, read, flush, crash, open, tamper
    lastErr,        \* its outcome
    crashedAt,      \* where the last crash hit: a flush step, "idle" (nothing
                    \* unflushed), "dirty" (unflushed writes, no flush running),
                    \* or "interrupted" (no flush running, and none has returned
                    \* since a crash hit a flush)
    tampered,       \* blocks modified behind the file and not rewritten by a flush since
    readData,       \* what the last read returned
    shadow,         \* the writes since create laid over an all-zero file
    cnt,            \* calls made so far, per kind
    failedAt,       \* the step the last flush failed at on an I/O error, "none"
                    \* once a flush has returned success or the handle is gone
    call,           \* the last open or create call: its arguments and its outcome
    bfile,          \* a BlockFile over a raw disk of its own, and its last call
    num,            \* get_node_numbers: the offsets to call it with, and the calls made
    jrn,            \* a RecoveryJournal over a journal partition of its own, byte by byte
    rcv,            \* recovery(source, journal): the partitions it is called on, its result
    again,          \* a second recovery on the same journal: where it started, its result
    hnd,            \* a RecoveryHandler made from raw images, and the calls made on it
    geo,            \* a backing disk size and a block address, and what they map to
    frec,           \* raw_file::recovery: the source and log it is called on, its result
    conc            \* threads calling one PfsDisk: the file under the mutex, each thread

\* the state of the calls checked one function at a time
more == <<again, hnd, geo, frec, conc>>
\* all of them but one
not_again == <<hnd, geo, frec, conc>>
not_hnd == <<again, geo, frec, conc>>
not_geo == <<again, hnd, frec, conc>>
not_frec == <<again, hnd, geo, conc>>
not_conc == <<again, hnd, geo, frec>>

vars == <<disk, jhdr, jlog, pc, metadata, root_mht, cache, need_writing, status,
          last_error, max_cache_page, jbuf, flush_pos, fq, rng, hist, T1, T2,
          nflushed, lastOp, lastErr, crashedAt, tampered, readData, shadow, cnt,
          failedAt, call, bfile, num, jrn, rcv, more>>

durable == <<disk, jhdr, jlog>>
handle == <<metadata, root_mht, cache, need_writing, status, last_error, jbuf,
            flush_pos, fq>>
ghost == <<hist, T1, T2, nflushed, crashedAt, tampered, readData, shadow>>
\* what only the calls of open and create and the BlockFile of its own change
api == <<call, bfile, num, jrn, rcv, more>>
\* what only the calls of the pure functions change
pure == <<num, jrn, rcv, more>>
\* what the calls of recovery leave alone
base == <<durable, pc, handle, max_cache_page, rng, ghost, lastOp, lastErr, cnt,
          failedAt, call, bfile, num, jrn>>

\* no overlay is kept once a write failed or unflushed writes died with the process
Lost == [size |-> 0, cells |-> [c \in AllCells |-> 0], ok |-> FALSE]

\* cache capacities a file is created with (cache_size = Some(k * SE_PAGE_SIZE))
CachePages == {1, 2}

NoRead == [cell |-> -1, val |-> 0]

\* the record of one call of open or create
CallOf(op, name, opts, cache_size, r) ==
    [op |-> op, name |-> name, opts |-> opts, cache_size |-> cache_size,
     err |-> r.err, pages |-> r.max_cache_page, offset |-> r.offset]

\* a BlockFile created over a raw disk of zeros, not yet used
NewBlockFile ==
    [file |-> BlockFile_create([b \in RawBlocks |-> 0]), op |-> "create", number |-> 0,
     arg |-> [len |-> 0, fill |-> 0], buf |-> [len |-> 0, fill |-> 0], err |-> "Ok"]

\* FileInner::create(name, opts, UserKey, cache_size) on a fresh disk
InitCreate(name, opts, cache_size) ==
    LET r == FileInner_create(name, opts, UserKeyMode, cache_size)
    IN /\ disk = [b \in PhysBlocks |-> ZeroBlock]
       /\ jhdr = 0
       /\ jlog = <<>>
       /\ pc = IF r.err = "Ok" THEN "idle" ELSE "down"
       /\ metadata = r.metadata
       /\ root_mht = r.root_mht
       /\ cache = r.cache
       /\ need_writing = r.need_writing
       /\ status = IF r.err = "Ok" THEN "Ok" ELSE "Closed"
       /\ last_error = "Success"
       /\ max_cache_page = r.max_cache_page
       /\ jbuf = <<>>
       /\ flush_pos = INNER_OFFSET
       /\ fq = <<>>
       /\ rng = 0
       /\ hist = [b \in PhysBlocks |-> {}]
       /\ T1 = EmptyView
       /\ T2 = EmptyView
       /\ nflushed = 0
       /\ lastOp = "create"
       /\ lastErr = r.err
       /\ crashedAt = "none"
       /\ tampered = {}
       /\ readData = NoRead
       /\ shadow = [size |-> 0, cells |-> [c \in AllCells |-> 0], ok |-> TRUE]
       /\ cnt = [write |-> 0, flush |-> 0, crash |-> 0, tamper |-> 0, fail |-> 0]
       /\ failedAt = "none"
       /\ call = CallOf("create", name, opts, cache_size, r)
       /\ bfile = NewBlockFile

\* no call of get_node_numbers made yet
NoNumbers == [in |-> <<>>, calls |-> <<>>]

\* RawJournal::create over a zeroed partition.  A byte string is kept as
\* extents: len bytes at off, the first of them the src-th byte ever appended
\* (appended byte k has the value k); what no extent covers is zero
NewJournal ==
    [buf |-> [src |-> 0, len |-> 0], flush_pos |-> INNER_OFFSET, disk |-> {}, hdr |-> 0]

\* no read of the journal made yet
NoJournalRead == [offset |-> 0, len |-> 0, out |-> {}]

\* before any call of a pure function
NoJournalCalls ==
    [j |-> NewJournal, total |-> 0, auto |-> 0, nodes |-> 0, commits |-> 0,
     calls |-> 0, op |-> "create", rd |-> NoJournalRead]

\* no call of recovery made, none to be made
NoRecovery ==
    [source |-> <<>>, hdr |-> 0, log |-> <<>>, done |-> FALSE, out |-> "ok",
     disk |-> <<>>, rollback_nodes |-> <<>>]

\* no second recovery made
NoSecondRun ==
    [run |-> "none", start |-> <<>>, out |-> "ok", disk |-> <<>>, rollback_nodes |-> <<>>]

\* a handler not made
NoHandler == [key |-> 0, raw_mhts |-> <<>>, calls |-> <<>>]

\* no disk size drawn
NoGeometry ==
    [nblocks |-> 0, addr |-> 0, done |-> FALSE, accepted |-> FALSE, offset |-> 0,
     physical |-> 0, data_nblocks |-> 0]

\* no call of raw_file::recovery made, none to be made
NoFileRecovery ==
    [source |-> <<>>, log |-> <<>>, cut |-> 0, done |-> FALSE, out |-> "ok", disk |-> <<>>,
     aligned |-> TRUE]

\* no thread
NoThreads ==
    [pos |-> 0, blocks |-> <<>>, stored |-> <<>>, completed |-> <<>>, lock |-> 0,
     thr |-> <<>>]

\* the variables of more before any call
MoreInit ==
    /\ again = NoSecondRun
    /\ hnd = NoHandler
    /\ geo = NoGeometry
    /\ frec = NoFileRecovery
    /\ conc = NoThreads

PureInit ==
    /\ num = NoNumbers
    /\ jrn = NoJournalCalls
    /\ rcv = NoRecovery
    /\ MoreInit

\* FileInner::create on a fresh disk, the way PfsDisk::create calls it
Init ==
    /\ \E k \in CachePages : InitCreate(FileName, PfsDiskOptions, <<k * SE_PAGE_SIZE>>)
    /\ PureInit

(***************************************************************************)
(* Sticky errors (design document 7)                                       *)
(***************************************************************************)
\* a handle that lets every operation through whatever its status
NeverFailFast(st) == FALSE

\* an operation on a handle whose status is not Ok returns last_error at once
FailFast(st) == st # "Ok"

\* the status an error leaves the handle in
StatusAfter(st, err) == IF err = "MacMismatch" THEN "Corrupted" ELSE st

(***************************************************************************)
(* write_at (design document 4.7, write path)                              *)
(***************************************************************************)
Write(off, len) ==
    /\ pc = "idle"
    /\ cnt.write < MaxWrites
    /\ IF FailFast(status)
       THEN /\ lastErr' = last_error
            /\ UNCHANGED <<metadata, cache, need_writing, status, last_error, shadow, cnt>>
       ELSE
       LET val == cnt.write + 1
           inl == [c \in InlineCells |->
                      IF Covered(off, len, c) THEN val ELSE metadata.plain.data[c]]
           size1 == IF off < MD_USER_DATA_SIZE
                    THEN Max(metadata.plain.size, Min(off + len, MD_USER_DATA_SIZE))
                    ELSE metadata.plain.size
           w == write_nodes([cache |-> cache, size |-> size1, err |-> "Ok"],
                            root_mht, disk, max_cache_page, off, len, val, 0)
       IN /\ metadata' = [metadata EXCEPT !.plain.data = inl, !.plain.size = w.size]
          /\ cache' = w.cache
          /\ need_writing' = (need_writing \/ off < MD_USER_DATA_SIZE
                               \/ \E i \in 1 .. Len(w.cache) : w.cache[i].need_writing)
          /\ status' = StatusAfter(status, w.err)
          /\ last_error' = IF w.err = "Ok" THEN last_error ELSE w.err
          /\ lastErr' = w.err
          /\ cnt' = [cnt EXCEPT !.write = @ + 1]
          /\ shadow' = IF ~shadow.ok THEN shadow
                        ELSE IF w.err # "Ok" THEN Lost
                        ELSE [size |-> Max(shadow.size, off + len),
                              cells |-> [c \in AllCells |->
                                            IF Covered(off, len, c) THEN val
                                            ELSE shadow.cells[c]],
                              ok |-> TRUE]
    /\ lastOp' = "write"
    /\ readData' = NoRead
    /\ UNCHANGED <<durable, pc, root_mht, max_cache_page, jbuf, flush_pos, fq, rng,
                   hist, T1, T2, nflushed, crashedAt, tampered>>
    /\ UNCHANGED <<failedAt, api>>

(***************************************************************************)
(* RawJournal / RecoveryJournal in memory (host/journal.rs)                *)
(* j = [buf, flush_pos, log, hdr]                                          *)
(***************************************************************************)
\* RawJournal::flush, both writes
RawJournal_flush(j) ==
    LET offset == j.flush_pos
        pos == offset + BytesOf(j.buf)
    IN [buf |-> <<>>, flush_pos |-> pos,
        log |-> IF j.buf # <<>> THEN write_slice(j.log, offset, j.buf) ELSE j.log,
        hdr |-> pos]

\* RawJournal::append of one record: buffered, flushed once the buffer is full
RawJournal_append(j, rec) ==
    LET j1 == [j EXCEPT !.buf = Append(j.buf, rec)]
    IN IF BytesOf(j1.buf) >= DEFAULT_BUF_SIZE THEN RawJournal_flush(j1) ELSE j1

RECURSIVE append_all(_, _)
append_all(j, recs) ==
    IF recs = <<>> THEN j
    ELSE append_all(RawJournal_append(j, Head(recs)), Tail(recs))

(***************************************************************************)
(* Flush protocol (design document 4.7, steps 1 to 11)                     *)
(***************************************************************************)
RECURSIVE SortedSeq(_)
SortedSeq(S) ==
    IF S = {} THEN <<>>
    ELSE LET m == CHOOSE x \in S : \A y \in S : x <= y
         IN <<m>> \o SortedSeq(S \ {m})

DirtyData(c) == {c[i].phys : i \in {j \in 1 .. Len(c) : c[j].need_writing}}

\* an order that takes the root MHT before the data nodes below it
DirtyOrderRootFirst(c, root) ==
    (IF DirtyData(c) # {} \/ root.need_writing THEN <<1>> ELSE <<>>)
        \o SortedSeq(DirtyData(c))

\* steps 2 and 3: the dirty nodes below the metadata, bottom-up
DirtyOrder(c, root) ==
    SortedSeq(DirtyData(c))
        \o (IF DirtyData(c) # {} \/ root.need_writing THEN <<1>> ELSE <<>>)

\* step 4: whether the block of a dirty node exists on disk
OnDisk(c, root, n) ==
    IF n = 1 THEN ~root.new_node ELSE ~c[CacheIndex(c, n)].new_node

\* step 4: Node records of the pre-images, in flush order, the metadata last
RECURSIVE PreImages(_, _, _, _)
PreImages(order, c, root, host_file) ==
    IF order = <<>> THEN <<>>
    ELSE (IF OnDisk(c, root, Head(order))
          THEN <<NodeRec(Head(order), host_file[Head(order)])>> ELSE <<>>)
         \o PreImages(Tail(order), c, root, host_file)

\* steps 1 to 5: journal the pre-images, set update_flag, write the metadata block
FlushBegin ==
    /\ pc = "idle"
    /\ need_writing
    /\ cnt.flush < MaxFlush
    /\ lastOp' = "flush"
    /\ readData' = NoRead
    /\ IF FailFast(status)
       THEN /\ lastErr' = last_error
            /\ UNCHANGED <<durable, pc, metadata, root_mht, jbuf, flush_pos, fq, T2, cnt>>
       ELSE LET order == DirtyOrder(cache, root_mht)
                recs == PreImages(order, cache, root_mht, disk)
                            \o (IF metadata.new_node THEN <<>>
                                ELSE <<NodeRec(0, disk[0])>>)
                j == append_all([buf |-> jbuf, flush_pos |-> flush_pos, log |-> jlog,
                                 hdr |-> jhdr], recs)
            IN /\ jbuf' = j.buf
               /\ flush_pos' = j.flush_pos
               /\ jlog' = j.log
               /\ jhdr' = j.hdr
               /\ fq' = order
               /\ pc' = IF order = <<>> THEN "f7" ELSE "f6"
               /\ root_mht' = [root_mht EXCEPT !.need_writing = (order # <<>>)]
               /\ metadata' = [metadata EXCEPT !.update_flag = 1]
               /\ disk' = [disk EXCEPT ![0] =
                              MetaBlock(1, metadata.encrypt_flags, metadata.enc)]
               /\ T2' = FileView(metadata, root_mht, cache, disk)
               /\ lastErr' = "Pending"
               /\ cnt' = [cnt EXCEPT !.flush = @ + 1]
    /\ UNCHANGED <<cache, need_writing, status, last_error, max_cache_page, rng, hist,
                   T1, nflushed, crashedAt, tampered, shadow>>
    /\ UNCHANGED <<failedAt, api>>

\* a random source that hands out the same key again
ReusedKey(used) == 1

\* the key the random source hands out next
FreshKey(used) == used + 1

\* step 6, one node: fresh key, new (key, mac) into the parent, ciphertext to disk
FlushNode ==
    /\ pc = "f6"
    /\ fq # <<>>
    /\ LET n == Head(fq)
           key == FreshKey(rng)
           pt == IF n = 1 THEN root_mht.pt ELSE cache[CacheIndex(cache, n)].pt
           ct == Encrypt(key, n, pt)
       IN /\ disk' = [disk EXCEPT ![n] = ct]
          /\ hist' = [hist EXCEPT ![n] = IF disk[n].kind = "node" THEN @ \cup {disk[n]}
                                         ELSE @]
          /\ IF n = 1
             THEN /\ metadata' = [metadata EXCEPT !.plain.mht_key = key,
                                                  !.plain.mht_gmac = MacOf(ct)]
                  /\ UNCHANGED root_mht
             ELSE /\ root_mht' = [root_mht EXCEPT
                                     !.pt[n] = [key |-> key, mac |-> MacOf(ct)],
                                     !.need_writing = TRUE]
                  /\ UNCHANGED metadata
          /\ tampered' = {t \in tampered : t.b # n}
    /\ rng' = rng + 1
    /\ fq' = Tail(fq)
    /\ pc' = IF Tail(fq) = <<>> THEN "f7" ELSE "f6"
    /\ UNCHANGED <<jhdr, jlog, cache, need_writing, status, last_error, max_cache_page,
                   jbuf, flush_pos, T1, T2, nflushed, lastOp, lastErr, crashedAt,
                   readData, shadow, cnt>>
    /\ UNCHANGED <<failedAt, api>>

\* step 7: encrypt the metadata payload, write block 0 with update_flag still set
FlushMeta ==
    /\ pc = "f7"
    /\ LET enc == MetaEncrypt(DefaultKey, metadata.plain)
       IN /\ metadata' = [metadata EXCEPT !.enc = enc]
          /\ disk' = [disk EXCEPT ![0] =
                         MetaBlock(metadata.update_flag, metadata.encrypt_flags, enc)]
    /\ pc' = "f8a"
    /\ UNCHANGED <<jhdr, jlog, root_mht, cache, need_writing, status, last_error,
                   max_cache_page, jbuf, flush_pos, fq, rng, ghost, lastOp, lastErr, cnt>>
    /\ UNCHANGED <<failedAt, api>>

\* step 8, first write: append Commit; RawJournal::flush writes the buffer
FlushCommit ==
    /\ pc = "f8a"
    /\ LET j == RawJournal_append([buf |-> jbuf, flush_pos |-> flush_pos,
                                   log |-> jlog, hdr |-> jhdr], CommitRec)
       IN /\ jbuf' = j.buf
          /\ jlog' = IF j.buf # <<>> THEN write_slice(j.log, j.flush_pos, j.buf)
                     ELSE j.log
          /\ flush_pos' = j.flush_pos + BytesOf(j.buf)
          /\ jhdr' = j.hdr
    /\ pc' = "f8b"
    /\ UNCHANGED <<disk, metadata, root_mht, cache, need_writing, status, last_error,
                   max_cache_page, fq, rng, ghost, lastOp, lastErr, cnt>>
    /\ UNCHANGED <<failedAt, api>>

\* step 8, second write: RawJournal::flush updates the length header
FlushHeader ==
    /\ pc = "f8b"
    /\ jhdr' = flush_pos
    /\ jbuf' = <<>>
    /\ pc' = "f9"
    /\ UNCHANGED <<disk, jlog, metadata, root_mht, cache, need_writing, status,
                   last_error, max_cache_page, flush_pos, fq, rng, ghost, lastOp,
                   lastErr, cnt>>
    /\ UNCHANGED <<failedAt, api>>

\* step 9: clear update_flag, rewrite the metadata block
FlushClear ==
    /\ pc = "f9"
    /\ metadata' = [metadata EXCEPT !.update_flag = 0]
    /\ disk' = [disk EXCEPT ![0] = MetaBlock(0, metadata.encrypt_flags, metadata.enc)]
    /\ pc' = "f10"
    /\ UNCHANGED <<jhdr, jlog, root_mht, cache, need_writing, status, last_error,
                   max_cache_page, jbuf, flush_pos, fq, rng, ghost, lastOp, lastErr, cnt>>
    /\ UNCHANGED <<failedAt, api>>

\* steps 10 and 11: truncate the journal, clear the need_writing flags, return
FlushDone ==
    /\ pc = "f10"
    /\ jhdr' = INNER_OFFSET
    /\ flush_pos' = INNER_OFFSET
    /\ cache' = [i \in 1 .. Len(cache) |->
                    IF cache[i].need_writing
                    THEN [cache[i] EXCEPT !.need_writing = FALSE, !.new_node = FALSE]
                    ELSE cache[i]]
    /\ root_mht' = [root_mht EXCEPT !.need_writing = FALSE,
                                    !.new_node = @ /\ ~root_mht.need_writing]
    /\ metadata' = [metadata EXCEPT !.new_node = FALSE]
    /\ need_writing' = FALSE
    /\ pc' = "idle"
    /\ T1' = T2
    /\ nflushed' = nflushed + 1
    /\ lastErr' = "Ok"
    /\ crashedAt' = "none"
    /\ UNCHANGED <<disk, jlog, status, last_error, max_cache_page, jbuf, fq, rng, hist,
                   T2, lastOp, tampered, readData, shadow, cnt>>
    /\ failedAt' = "none"
    /\ UNCHANGED api

(***************************************************************************)
(* read_at (design document 4.7, read path)                                *)
(***************************************************************************)
\* the cells a read call is tried on: one inline, one per data node
ReadInputs == {0} \cup {(MD_USER_DATA_SIZE + dl * NODE_SIZE) \div CELL : dl \in 0 .. MaxData}

\* read_at(c * CELL, CELL)
Read(c) ==
    /\ pc = "idle"
    /\ c * CELL < metadata.plain.size
    /\ IF FailFast(status)
       THEN /\ readData' = [cell |-> c, val |-> -1]
            /\ lastErr' = last_error
            /\ UNCHANGED <<cache, status, last_error>>
       ELSE IF c \in InlineCells
       THEN /\ readData' = [cell |-> c, val |-> metadata.plain.data[c]]
            /\ lastErr' = "Ok"
            /\ UNCHANGED <<cache, status, last_error>>
       ELSE LET phys == get_node_numbers(c * CELL).data_phys
                k == ((c * CELL - MD_USER_DATA_SIZE) % NODE_SIZE) \div CELL
                g == get_data_node(cache, root_mht, disk, max_cache_page, phys)
            IN /\ cache' = g.cache
               /\ lastErr' = g.err
               /\ status' = StatusAfter(status, g.err)
               /\ last_error' = IF g.err = "Ok" THEN last_error ELSE g.err
               /\ readData' = [cell |-> c,
                               val |-> IF g.err = "Ok" THEN Head(g.cache).pt[k] ELSE -1]
    /\ lastOp' = "read"
    /\ UNCHANGED <<durable, pc, metadata, root_mht, need_writing, max_cache_page, jbuf,
                   flush_pos, fq, rng, hist, T1, T2, nflushed, crashedAt, tampered,
                   shadow, cnt>>
    /\ UNCHANGED <<failedAt, api>>

(***************************************************************************)
(* Process death, reopening, and writes to the host disk behind the file   *)
(***************************************************************************)
\* the process dies: the handle and the journal buffer are gone, the disks stay
Crash ==
    /\ pc # "down"
    /\ cnt.crash < MaxCrash
    /\ pc' = "down"
    /\ crashedAt' = IF pc # "idle" THEN pc
                    ELSE IF crashedAt \notin {"none", "idle", "dirty"} THEN "interrupted"
                    ELSE IF need_writing THEN "dirty"
                    ELSE "idle"
    /\ shadow' = IF pc = "idle" /\ ~need_writing THEN shadow ELSE Lost
    /\ metadata' = NullMetadata
    /\ root_mht' = NewRoot
    /\ cache' = <<>>
    /\ need_writing' = FALSE
    /\ status' = "Closed"
    /\ last_error' = "Success"
    /\ jbuf' = <<>>
    /\ flush_pos' = INNER_OFFSET
    /\ fq' = <<>>
    /\ readData' = NoRead
    /\ lastOp' = "crash"
    /\ lastErr' = "Ok"
    /\ cnt' = [cnt EXCEPT !.crash = @ + 1]
    /\ UNCHANGED <<durable, max_cache_page, rng, hist, T1, T2, nflushed, tampered>>
    /\ failedAt' = "none"
    /\ UNCHANGED api

\* FileInner::open on the disks as they are; RecoveryJournal::create gives an
\* empty buffer at INNER_OFFSET
Open ==
    /\ pc = "down"
    /\ \E r \in {FileInner_open(FileName, disk, jhdr, jlog, PfsDiskOptions, UserKeyMode,
                                <<max_cache_page * SE_PAGE_SIZE>>)} :
          /\ disk' = r.disk
          /\ metadata' = r.metadata
          /\ root_mht' = r.root_mht
          /\ cache' = r.cache
          /\ lastErr' = r.err
          /\ pc' = IF r.err = "Ok" THEN "idle" ELSE "down"
          /\ status' = IF r.err = "Ok" THEN "Ok" ELSE "Closed"
    /\ lastOp' = "open"
    /\ UNCHANGED <<jhdr, jlog, need_writing, last_error, max_cache_page, jbuf,
                   flush_pos, fq, rng, hist, T1, T2, nflushed, crashedAt, tampered,
                   readData, shadow, cnt>>
    /\ UNCHANGED <<failedAt, api>>

\* the process died with no flush running and the journal is empty
CleanDisk == crashedAt \in {"idle", "dirty", "interrupted"} /\ jhdr = INNER_OFFSET

\* a bit of a data or MHT block is flipped on the host disk
Tamper(b) ==
    /\ pc = "down"
    /\ cnt.tamper < MaxTamper
    /\ disk[b].kind = "node"
    /\ disk' = [disk EXCEPT ![b] = BadBlock]
    /\ tampered' = tampered \cup {[b |-> b, how |-> "flip", clean |-> CleanDisk]}
    /\ lastOp' = "tamper"
    /\ lastErr' = "Ok"
    /\ cnt' = [cnt EXCEPT !.tamper = @ + 1]
    /\ UNCHANGED <<jhdr, jlog, pc, handle, max_cache_page, rng, hist, T1, T2, nflushed,
                   crashedAt, readData, shadow>>
    /\ UNCHANGED <<failedAt, api>>

\* a block is replaced by a ciphertext an earlier flush had written there
Replay(b) ==
    /\ pc = "down"
    /\ cnt.tamper < MaxTamper
    /\ disk[b].kind = "node"
    /\ \E old \in hist[b] :
          /\ old # disk[b]
          /\ disk' = [disk EXCEPT ![b] = old]
    /\ tampered' = tampered \cup {[b |-> b, how |-> "replay", clean |-> CleanDisk]}
    /\ lastOp' = "replay"
    /\ lastErr' = "Ok"
    /\ cnt' = [cnt EXCEPT !.tamper = @ + 1]
    /\ UNCHANGED <<jhdr, jlog, pc, handle, max_cache_page, rng, hist, T1, T2, nflushed,
                   crashedAt, readData, shadow>>
    /\ UNCHANGED <<failedAt, api>>

Next ==
    \/ \E w \in WriteInputs : Write(w.off, w.len)
    \/ \E c \in ReadInputs : Read(c)
    \/ FlushBegin
    \/ FlushNode
    \/ FlushMeta
    \/ FlushCommit
    \/ FlushHeader
    \/ FlushClear
    \/ FlushDone
    \/ Crash
    \/ Open
    \/ \E b \in PhysBlocks \ {0} : Tamper(b)
    \/ \E b \in PhysBlocks \ {0} : Replay(b)

Spec == Init /\ [][Next]_vars

(***************************************************************************)
(* Crash consistency (design document 4.7, 4.8, 8)                         *)
(***************************************************************************)
\* the steps of a running flush a crash can hit
FlushPcs == {"f6", "f7", "f8a", "f8b", "f9", "f10"}

\* file_size() and read_at(0, size) of the open handle
CurView == FileView(metadata, root_mht, cache, disk)

\* the state an open call returns in
Reopened == lastOp = "open"

\* C1: a crash anywhere in the I/O of the flush that follows a completed flush
\* T1 is followed by a re-open that succeeds and shows size and content of T1.
C1_CrashYieldsT1 ==
    (Reopened /\ crashedAt \in FlushPcs /\ nflushed >= 1 /\ cnt.tamper = 0)
        => (lastErr = "Ok" /\ CurView = T1)

\* C2: whenever the re-open after a crash inside a flush from T1 to T2 gives a
\* handle, the file it shows is all of T1 or all of T2, never some of each.
C2_T1orT2 ==
    (Reopened /\ lastErr = "Ok" /\ crashedAt \in FlushPcs /\ nflushed >= 1
        /\ cnt.tamper = 0)
        => CurView \in {T1, T2}

\* C3: a crash before the Commit record is flushed (steps 5 to 7 done or under
\* way, step 8 not begun) is rolled back on re-open: content and size are
\* those of the previous completed flush.
C3_RollbackBeforeCommit ==
    (Reopened /\ crashedAt \in {"f6", "f7", "f8a"} /\ nflushed >= 1 /\ cnt.tamper = 0)
        => (lastErr = "Ok" /\ CurView.size = T1.size /\ CurView.cells = T1.cells)

\* C4: a crash after the journal flush of step 8 and before step 11 ends is
\* followed by a re-open that shows the new content T2 and leaves update_flag 0
\* in the metadata block on disk.
C4_CommittedYieldsT2 ==
    (Reopened /\ crashedAt \in {"f9", "f10"} /\ nflushed >= 1 /\ cnt.tamper = 0)
        => (lastErr = "Ok" /\ CurView = T2 /\ disk[0].update_flag = 0)

\* C6: after a crash at any step of a flush, open with the same name, mode and
\* key succeeds, at the latest when it is called again; it never ends in
\* RecoveryNeeded.
C6_OpenSucceeds ==
    (Reopened /\ crashedAt \in FlushPcs /\ cnt.tamper = 0)
        => \/ lastErr = "Ok"
           \/ FileInner_open(FileName, disk, jhdr, jlog, PfsDiskOptions, UserKeyMode,
                             <<max_cache_page * SE_PAGE_SIZE>>).err = "Ok"

Expected(o) ==
    [size |-> o.size,
     cells |-> [c \in AllCells |-> IF c * CELL < o.size THEN o.cells[c] ELSE 0]]

\* on one handle, with no flush needed, the file reads as the overlay of the
\* writes that returned success
ReadAfterWrite ==
    (pc = "idle" /\ status = "Ok" /\ shadow.ok /\ cnt.crash = 0)
        => CurView = Expected(shadow)

\* C8: writes on a new file, flush, re-open: the size is the largest
\* offset + length written, the content is the overlay of the writes in order
\* on zeros, and what was never written below the size reads as zero.
C8_RoundTrip ==
    (Reopened /\ shadow.ok /\ cnt.crash = 1 /\ crashedAt = "idle" /\ nflushed >= 1
        /\ cnt.tamper = 0)
        => (lastErr = "Ok" /\ CurView = Expected(shadow))

C8_SparseRoundTrip ==
    /\ Reopened
    /\ lastErr = "Ok"
    /\ shadow.ok
    /\ cnt.crash = 1
    /\ crashedAt = "idle"
    /\ cnt.tamper = 0
    /\ cnt.write >= 2
    /\ shadow.size > MD_USER_DATA_SIZE + NODE_SIZE
    /\ \E c \in AllCells : c * CELL < shadow.size /\ shadow.cells[c] = 0
    /\ \E c, d \in AllCells : shadow.cells[c] > 0 /\ shadow.cells[d] > shadow.cells[c]
    /\ CurView = Expected(shadow)

(***************************************************************************)
(* Integrity and replay (design document 4.5, 8)                           *)
(***************************************************************************)
\* the metadata block on disk d says the file has data beyond the inline region
RootReferenced(d) ==
    /\ d[0].kind = "meta"
    /\ d[0].enc.kind = "menc"
    /\ d[0].enc.pl.size > MD_USER_DATA_SIZE

\* the open handle would fetch data block b from disk on a read of b's range
Reaches(b) ==
    /\ pc = "idle"
    /\ status = "Ok"
    /\ b \in DataBlocks
    /\ CacheIndex(cache, b) = 0
    /\ root_mht.pt[b] # EmptyEntry
    /\ \E c \in ReadInputs : /\ c \notin InlineCells
                             /\ get_node_numbers(c * CELL).data_phys = b
                             /\ c * CELL < metadata.plain.size

\* this step is a read that fetches data block b from disk
ReadStepOn(b) ==
    /\ Reaches(b)
    /\ lastOp' = "read"
    /\ readData'.cell \notin InlineCells
    /\ get_node_numbers(readData'.cell * CELL).data_phys = b

\* this step is an open of a file whose root MHT block was modified
OpenStepOn(b) ==
    /\ b = 1
    /\ pc = "down"
    /\ lastOp' = "open"
    /\ RootReferenced(disk)

\* every modification of kind how made to a file at rest is met by a failed
\* verification: the read that fetches the data block fails, or the open that
\* fetches the root MHT does
ModificationFails(how) ==
    \A t \in tampered :
        (t.how = how /\ t.clean)
            => /\ ReadStepOn(t.b)
                    => (/\ lastErr' = "MacMismatch"
                        /\ status' = "Corrupted"
                        /\ readData'.val = -1)
               /\ OpenStepOn(t.b)
                    => (lastErr' = "MacMismatch" /\ pc' = "down")

PhysOf(c) == {c[i].phys : i \in 1 .. Len(c)}

\* cache c is at capacity and every node in it is dirty
FullOfDirty(c, cap) == Len(c) = cap /\ \A i \in 1 .. Len(c) : c[i].need_writing

\* this step is a write_at that got past the status check
WriteStep == cnt'.write = cnt.write + 1

\* this step is a read_at or write_at that got past the status check
AccessStep == WriteStep \/ (lastOp' = "read" /\ ~FailFast(status))

OpStep == pc = "idle" /\ lastOp' \in {"read", "write", "flush"}

OpenStep == pc = "down" /\ lastOp' = "open"

\* C14: every open runs journal recovery against the data partition, whatever
\* the metadata block and the root contain: whenever recovery can run to its
\* end on the disks as they are, the data partition after the open is the one
\* recovery leaves.
C14_RecoveryOnEveryOpen ==
    [][(OpenStep /\ recovery(disk, jhdr, jlog).out = "ok")
          => disk' = recovery(disk, jhdr, jlog).disk]_vars

\* open reaches the replay of the journal and the replay cannot complete: it
\* stops on an error, or leaves update_flag set in the metadata block
ReplayIncomplete ==
    /\ open_file(disk, FileName, DefaultKey, EncryptFlagsUserKey).err
          \in {"Ok", "RecoveryNeeded"}
    /\ LET rec == recovery(disk, jhdr, jlog)
       IN \/ rec.out # "ok"
          \/ open_file(rec.disk, FileName, DefaultKey, EncryptFlagsUserKey).err
                = "RecoveryNeeded"

\* C17: when the replay of the journal cannot complete during open, open
\* still returns a handle, and the status of that handle is Corrupted.
C17_OpensCorrupted ==
    [][(OpenStep /\ ReplayIncomplete) => (pc' = "idle" /\ status' = "Corrupted")]_vars

(***************************************************************************)
(* BlockFile buffers (host/block_file.rs)                                  *)
(***************************************************************************)
\* BlockFile::write(number, buf)
BfWrite(number, buf) ==
    /\ LET r == BlockFile_write(bfile.file, number, buf)
       IN bfile' = [file |-> r.file, op |-> "write", number |-> number, arg |-> buf,
                    buf |-> r.buf, err |-> r.err]
    /\ UNCHANGED <<durable, pc, handle, max_cache_page, rng, ghost, lastOp, lastErr, cnt,
                   failedAt, call, pure>>

\* BlockFile::read(number, buf)
BfRead(number, buf) ==
    /\ LET r == BlockFile_read(bfile.file, number, buf)
       IN bfile' = [file |-> r.file, op |-> "read", number |-> number, arg |-> buf,
                    buf |-> r.buf, err |-> r.err]
    /\ UNCHANGED <<durable, pc, handle, max_cache_page, rng, ghost, lastOp, lastErr, cnt,
                   failedAt, call, pure>>

NextBlockFile ==
    \/ \E n \in RawBlocks, buf \in Buffers : BfWrite(n, buf)
    \/ \E n \in RawBlocks, buf \in Buffers : BfRead(n, buf)

SpecBlockFile == Init /\ [][NextBlockFile]_vars

\* C20: a read or a write of a BlockFile with a buffer whose length is not
\* NODE_SIZE returns NotBlockSizeAligned and does no I/O: every block of the
\* raw disk, the size of the file and the caller's buffer are as before.
C20_UnalignedRejected ==
    [][(bfile'.op \in {"read", "write"} /\ bfile'.arg.len # NODE_SIZE)
          => /\ bfile'.err = "NotBlockSizeAligned"
             /\ bfile'.file = bfile.file
             /\ bfile'.buf = bfile'.arg]_vars

\* a write of a wrong length was refused on a disk that holds written blocks
C20_ShortWriteRefused ==
    /\ bfile.op = "write"
    /\ bfile.arg.len \in {NODE_SIZE - 1, 2 * NODE_SIZE}
    /\ bfile.err = "NotBlockSizeAligned"
    /\ \E b \in RawBlocks : bfile.file.raw_disk[b] \notin {0, bfile.arg.fill}

(***************************************************************************)
(* Arguments of open and create (file/open.rs, file/mod.rs)                *)
(***************************************************************************)
\* writes per run of the calls below
MaxApiWrites == 1
\* closes per run of the calls below
MaxClose == 1

\* the (options, cache size) pairs open and create are called with: every
\* OpenOptions with a cache of one page, every cache size with the options
\* PfsDisk passes
ApiInputs ==
    [opts : OpenOptions, cache_size : {<<SE_PAGE_SIZE>>}]
        \cup [opts : {PfsDiskOptions}, cache_size : CacheSizes]

\* FileInner::create(name, opts, UserKey, cache_size) on a fresh disk
InitApi ==
    /\ \E name \in Names, in \in ApiInputs : InitCreate(name, in.opts, in.cache_size)
    /\ PureInit

\* write_at on a handle that was opened the way PfsDisk opens it
ApiWrite ==
    /\ cnt.write < MaxApiWrites
    /\ call.opts = PfsDiskOptions
    /\ \E w \in WriteInputs : Write(w.off, w.len)

\* ProtectedFile::close on a handle with nothing left to flush: the handle is dropped
Close ==
    /\ pc = "idle"
    /\ ~need_writing
    /\ cnt.crash < MaxClose
    /\ Crash

\* FileInner::open(name, opts, UserKey, cache_size) on the disks as they are
OpenCall(name, opts, cache_size) ==
    /\ pc = "down"
    /\ \E r \in {FileInner_open(name, disk, jhdr, jlog, opts, UserKeyMode, cache_size)} :
          /\ disk' = r.disk
          /\ metadata' = r.metadata
          /\ root_mht' = r.root_mht
          /\ cache' = r.cache
          /\ max_cache_page' = r.max_cache_page
          /\ lastErr' = r.err
          /\ pc' = IF r.err = "Ok" THEN "idle" ELSE "down"
          /\ status' = IF r.err = "Ok" THEN "Ok" ELSE "Closed"
          /\ call' = CallOf("open", name, opts, cache_size, r)
    /\ lastOp' = "open"
    /\ UNCHANGED <<jhdr, jlog, need_writing, last_error, jbuf, flush_pos, fq, rng, hist,
                   T1, T2, nflushed, crashedAt, tampered, readData, shadow, cnt,
                   failedAt, bfile, pure>>

NextApi ==
    \/ ApiWrite
    \/ FlushBegin
    \/ FlushNode
    \/ FlushMeta
    \/ FlushCommit
    \/ FlushHeader
    \/ FlushClear
    \/ FlushDone
    \/ Close
    \/ \E name \in Names, in \in ApiInputs : OpenCall(name, in.opts, in.cache_size)

SpecApi == InitApi /\ [][NextApi]_vars

\* the file name in the payload of the metadata block
StoredName(host_file) == host_file[0].enc.pl.file_name

\* C11: open of a stored file under a name that differs from the file_name in
\* its metadata fails with NameMismatch and gives no handle, whichever of the
\* two names is the stored one.
C11_NameMismatch ==
    [][(/\ OpenStep
        /\ disk[0].kind = "meta"
        /\ check_cache_size(call'.cache_size).ok
        /\ call'.name # StoredName(disk))
          => /\ call'.err = "NameMismatch"
             /\ lastErr' = "NameMismatch"
             /\ pc' = "down"
             /\ status' = "Closed"]_vars

\* a file stored as FileName, with a data node, was opened under the other name
C11_OpenedUnderOtherName ==
    /\ lastOp = "open"
    /\ call.op = "open"
    /\ call.name # FileName
    /\ disk[0].kind = "meta"
    /\ StoredName(disk) = FileName
    /\ disk[0].enc.pl.size > MD_USER_DATA_SIZE
    /\ call.err = "NameMismatch"

\* C18: open and create refuse, with an invalid-argument error and without a
\* handle, every OpenOptions in which the number of flags set among read,
\* write and append is not one; the options PfsDisk passes (read and write)
\* are among those refused.
C18_OptionsChecked ==
    /\ OpenOptions_check(PfsDiskOptions) # "Ok"
    /\ (OpenOptions_check(call.opts) # "Ok") => (call.err = "EINVAL" /\ pc = "down")

\* C19: open and create take a cache size only if it is a positive multiple
\* of SE_PAGE_SIZE: None gives 48 pages, Some(k * SE_PAGE_SIZE) with k >= 1
\* gives k pages, Some(0) and every size that is no multiple are refused with
\* EINVAL and no handle.
C19_CacheSizeChecked ==
    LET cs == call.cache_size
    IN IF cs # <<>> /\ (cs[1] = 0 \/ cs[1] % SE_PAGE_SIZE # 0)
       THEN call.err = "EINVAL" /\ pc = "down"
       ELSE /\ call.err # "EINVAL"
            /\ call.err = "Ok"
                  => call.pages = IF cs = <<>> THEN 48 ELSE cs[1] \div SE_PAGE_SIZE

(***************************************************************************)
(* Flush failures (design document 4.7, 7)                                 *)
(***************************************************************************)
\* flushes that fail on an I/O error, per run
MaxFail == 1
\* crashes per run with I/O errors
MaxIoCrash == 1

\* a failed flush that marks the nodes it was writing as written
CacheCleanedByFailedFlush(c) ==
    [i \in 1 .. Len(c) |-> [c[i] EXCEPT !.need_writing = FALSE]]

\* the cache a failed flush leaves: every node, dirty ones still dirty
CacheAfterFailedFlush(c) == c

\* the write of the step the flush stands at fails: the flush returns the
\* error, the status becomes FlushError, the cache and the flags stay
FlushFail ==
    /\ pc \in FlushPcs
    /\ cnt.fail < MaxFail
    /\ pc' = "idle"
    /\ status' = "FlushError"
    /\ last_error' = "EIO"
    /\ lastErr' = "EIO"
    /\ fq' = <<>>
    /\ failedAt' = pc
    /\ cache' = CacheAfterFailedFlush(cache)
    /\ cnt' = [cnt EXCEPT !.fail = @ + 1]
    /\ UNCHANGED <<durable, metadata, root_mht, need_writing, max_cache_page,
                   jbuf, flush_pos, rng, hist, T1, T2, nflushed, lastOp, crashedAt,
                   tampered, readData, shadow, api>>

\* clear_error after a failed flush
ClearError ==
    /\ pc = "idle"
    /\ status = "FlushError"
    /\ status' = "Ok"
    /\ last_error' = "Success"
    /\ lastOp' = "clear_error"
    /\ lastErr' = "Ok"
    /\ readData' = NoRead
    /\ UNCHANGED <<durable, pc, metadata, root_mht, cache, need_writing, max_cache_page,
                   jbuf, flush_pos, fq, rng, hist, T1, T2, nflushed, crashedAt, tampered,
                   shadow, cnt, failedAt, api>>

\* the process dies, at most MaxIoCrash times in a run with I/O errors
IoCrash ==
    /\ cnt.crash < MaxIoCrash
    /\ Crash

NextIO ==
    \/ \E w \in WriteInputs : Write(w.off, w.len)
    \/ \E c \in ReadInputs : Read(c)
    \/ FlushBegin
    \/ FlushNode
    \/ FlushMeta
    \/ FlushCommit
    \/ FlushHeader
    \/ FlushClear
    \/ FlushDone
    \/ FlushFail
    \/ ClearError
    \/ IoCrash
    \/ Open

SpecIO == Init /\ [][NextIO]_vars

\* update_flag as the metadata block on disk has it
UpdateFlagOnDisk == IF disk[0].kind = "meta" THEN disk[0].update_flag ELSE 0

MaxNode == 193

\* the user offsets get_node_numbers is called with: first and last byte of
\* every data node up to MaxNode
NumberOffsets ==
    {MD_USER_DATA_SIZE + dl * NODE_SIZE + r : dl \in 0 .. MaxNode, r \in {0, NODE_SIZE - 1}}

\* RecoveryHandler::get_mht_node: the physical number of an MHT below the root
MhtPhysical(logical_number) ==
    1 + logical_number * (ATTACHED_DATA_NODES_COUNT + 1)

\* a created file and two offsets get_node_numbers is going to be called with
InitNumbers ==
    /\ \E k \in CachePages : InitCreate(FileName, PfsDiskOptions, <<k * SE_PAGE_SIZE>>)
    /\ \E o1 \in NumberOffsets, o2 \in NumberOffsets :
          num = [in |-> <<o1, o2>>, calls |-> <<>>]
    /\ jrn = NoJournalCalls
    /\ MoreInit
    /\ rcv = NoRecovery

\* RecoveryHandler::get_node_numbers(offset) on the next offset
NumberCall ==
    /\ num.in # <<>>
    /\ num' = [in |-> Tail(num.in),
               calls |-> Append(num.calls, [offset |-> Head(num.in),
                                            out |-> get_node_numbers(Head(num.in))])]
    /\ UNCHANGED <<durable, pc, handle, max_cache_page, rng, ghost, lastOp, lastErr, cnt,
                   failedAt, call, bfile, jrn, rcv, more>>

NextNumbers == NumberCall

SpecNumbers == InitNumbers /\ [][NextNumbers]_vars

MaxJournalCalls == 5

\* consecutive appends / commits of one caller's loop (tests::trigger_flush)
AppendBursts == {1, 1021}
CommitBursts == {1, 3098}

\* BlockSet::write_slice(offset, buf) on the journal partition
write_slice_bytes(part, offset, buf) ==
    LET end == offset + buf.len
        left == {[off |-> e.off,
                  len |-> (IF e.off + e.len < offset THEN e.off + e.len ELSE offset) - e.off,
                  src |-> e.src] : e \in {x \in part : x.off < offset}}
        right == {[off |-> IF e.off > end THEN e.off ELSE end,
                   len |-> e.off + e.len - (IF e.off > end THEN e.off ELSE end),
                   src |-> e.src + ((IF e.off > end THEN e.off ELSE end) - e.off)] :
                     e \in {x \in part : x.off + x.len > end}}
    IN left \cup right \cup {[off |-> offset, len |-> buf.len, src |-> buf.src]}

\* a flush that writes the buffer at the start of the record region every time
RawJournal_flush_rewind(j) ==
    [buf |-> [src |-> 0, len |-> 0],
     flush_pos |-> j.flush_pos + j.buf.len,
     disk |-> IF j.buf.len # 0 THEN write_slice_bytes(j.disk, INNER_OFFSET, j.buf)
              ELSE j.disk,
     hdr |-> j.flush_pos + j.buf.len]

\* RawJournal::flush: the buffer at flush_pos, then the length header, then clear
RawJournal_flush_bytes(j) ==
    LET offset == j.flush_pos
        pos == offset + j.buf.len
    IN [buf |-> [src |-> 0, len |-> 0],
        flush_pos |-> pos,
        disk |-> IF j.buf.len # 0 THEN write_slice_bytes(j.disk, offset, j.buf)
                 ELSE j.disk,
        hdr |-> pos]

\* RawJournal::append(data) of n bytes: extend the buffer, flush when it is full
RawJournal_append_bytes(st, n) ==
    LET buf == [src |-> IF st.j.buf.len = 0 THEN st.total ELSE st.j.buf.src,
                len |-> st.j.buf.len + n]
        j1 == [st.j EXCEPT !.buf = buf]
    IN IF buf.len >= DEFAULT_BUF_SIZE
       THEN [j |-> RawJournal_flush_bytes(j1), total |-> st.total + n, auto |-> st.auto + 1]
       ELSE [j |-> j1, total |-> st.total + n, auto |-> st.auto]

\* RecoveryJournal::append(data), data.len() == RECOVERY_NODE_SIZE: flag, then data
RecoveryJournal_append(st) ==
    RawJournal_append_bytes(RawJournal_append_bytes(st, 1), RECOVERY_NODE_SIZE)

\* RecoveryJournal::commit: the flag byte
RecoveryJournal_commit(st) == RawJournal_append_bytes(st, 1)

\* k appends one after the other, the first half of them evaluated before
\* the second half starts
RECURSIVE AppendTimes(_, _)
AppendTimes(st, k) ==
    IF k = 0 THEN st
    ELSE IF k = 1 THEN RecoveryJournal_append(st)
    ELSE CHOOSE r \in {AppendTimes(half, k - k \div 2) : half \in {AppendTimes(st, k \div 2)}} : TRUE

\* k commits one after the other
RECURSIVE CommitTimes(_, _)
CommitTimes(st, k) ==
    IF k = 0 THEN st
    ELSE IF k = 1 THEN RecoveryJournal_commit(st)
    ELSE CHOOSE r \in {CommitTimes(half, k - k \div 2) : half \in {CommitTimes(st, k \div 2)}} : TRUE

\* RawJournal::size
RawJournal_size(j) == journal_size(j.hdr)

\* RawJournal::read(offset, buf) of n bytes: from the disk at offset + INNER_OFFSET
RawJournal_read(j, offset, n) ==
    LET from == offset + INNER_OFFSET
        to == from + n
    IN {[off |-> (IF e.off > from THEN e.off ELSE from) - from,
         len |-> (IF e.off + e.len < to THEN e.off + e.len ELSE to)
                    - (IF e.off > from THEN e.off ELSE from),
         src |-> e.src + ((IF e.off > from THEN e.off ELSE from) - e.off)] :
           e \in {x \in j.disk : x.off < to /\ x.off + x.len > from}}

JournalUnchanged ==
    UNCHANGED <<durable, pc, handle, max_cache_page, rng, ghost, lastOp, lastErr, cnt,
                failedAt, call, bfile, num, rcv, more>>

\* a loop of k RecoveryJournal::append calls
JournalAppend(k) ==
    /\ jrn.calls < MaxJournalCalls
    /\ \E st \in {AppendTimes([j |-> jrn.j, total |-> jrn.total, auto |-> jrn.auto], k)} :
          jrn' = [j |-> st.j, total |-> st.total, auto |-> st.auto,
                  nodes |-> jrn.nodes + k, commits |-> jrn.commits,
                  calls |-> jrn.calls + 1, op |-> "append", rd |-> NoJournalRead]
    /\ JournalUnchanged

\* a loop of k RecoveryJournal::commit calls
JournalCommit(k) ==
    /\ jrn.calls < MaxJournalCalls
    /\ \E st \in {CommitTimes([j |-> jrn.j, total |-> jrn.total, auto |-> jrn.auto], k)} :
          jrn' = [j |-> st.j, total |-> st.total, auto |-> st.auto,
                  nodes |-> jrn.nodes, commits |-> jrn.commits + k,
                  calls |-> jrn.calls + 1, op |-> "commit", rd |-> NoJournalRead]
    /\ JournalUnchanged

\* RecoveryJournal::flush
JournalFlush ==
    /\ jrn.calls < MaxJournalCalls
    /\ jrn' = [jrn EXCEPT !.j = RawJournal_flush_bytes(jrn.j), !.calls = jrn.calls + 1,
                          !.op = "flush", !.rd = NoJournalRead]
    /\ JournalUnchanged

\* RecoveryJournal::read(offset, buf) of n bytes inside the log
JournalRead(offset, n) ==
    /\ RawJournal_size(jrn.j).ok
    /\ offset + n <= RawJournal_size(jrn.j).size
    /\ jrn' = [jrn EXCEPT !.rd = [offset |-> offset, len |-> n,
                                  out |-> RawJournal_read(jrn.j, offset, n)]]
    /\ JournalUnchanged

\* where the reads start: the first record, inside it, the last record an
\* automatic flush wrote, the first record after it
ReadOffsets ==
    {0, 1, 1021 * (1 + RECOVERY_NODE_SIZE), 1022 * (1 + RECOVERY_NODE_SIZE)}
ReadLens == {1, 1 + RECOVERY_NODE_SIZE, 1 + RECOVERY_NODE_SIZE + 1}

NextJournal ==
    \/ \E k \in AppendBursts : JournalAppend(k)
    \/ \E k \in CommitBursts : JournalCommit(k)
    \/ JournalFlush
    \/ \E offset \in ReadOffsets, n \in ReadLens : JournalRead(offset, n)

SpecJournal == Init /\ [][NextJournal]_vars

\* the byte i of what a read returned; -1 for a byte no write ever reached
ByteRead(out, i) ==
    IF \E e \in out : e.off <= i /\ i < e.off + e.len
    THEN LET e == CHOOSE x \in out : x.off <= i /\ i < x.off + x.len
         IN e.src + (i - e.off)
    ELSE -1

\* the positions that decide a read: its ends and the ends of every extent
ReadPoints(rd) ==
    {i \in {0, rd.len - 1} \cup UNION {{e.off - 1, e.off, e.off + e.len - 1, e.off + e.len} :
                                         e \in rd.out} : 0 <= i /\ i < rd.len}

C23_OffsetAfterOpen ==
    [][(OpenStep /\ call'.err = "Ok")
          => call'.offset = IF call'.opts.append /\ ~call'.opts.update
                            THEN disk'[0].enc.pl.size ELSE 0]_vars

\* a file with data nodes opened for append, the offset at its end
C23_AppendAtEnd ==
    /\ call.op = "open"
    /\ call.err = "Ok"
    /\ call.opts.append
    /\ ~call.opts.update
    /\ lastOp = "open"
    /\ disk[0].enc.pl.size > MD_USER_DATA_SIZE
    /\ call.offset = disk[0].enc.pl.size

(***************************************************************************)
(* Files that fit the metadata block (design document 3, file/open.rs)     *)
(***************************************************************************)
\* writes that stay inside the inline region of the metadata block, and one
\* that reaches the first data node
InlineWriteInputs ==
    {[off |-> 0, len |-> CELL],
     [off |-> CELL, len |-> 2 * CELL],
     [off |-> 2 * CELL, len |-> 2 * CELL]}

NextInline ==
    \/ \E w \in InlineWriteInputs : Write(w.off, w.len)
    \/ \E c \in ReadInputs : Read(c)
    \/ FlushBegin
    \/ FlushNode
    \/ FlushMeta
    \/ FlushCommit
    \/ FlushHeader
    \/ FlushClear
    \/ FlushDone
    \/ IoCrash
    \/ Open

SpecInline == Init /\ [][NextInline]_vars

\* every block of the data partition behind the metadata block is all-zero
OnlyMetadataBlock(host_file) ==
    \A b \in PhysBlocks \ {0} : host_file[b] = ZeroBlock

\* the root MHT block replaced by a block that nothing decrypts
WithoutRootBlock(host_file) == [host_file EXCEPT ![1] = BadBlock]

\* C24: for a file whose size has never exceeded MD_USER_DATA_SIZE no step
\* writes a block of the data partition other than block 0 (block 1 stays
\* all-zero), and open_file reads and decrypts the root MHT only when the
\* stored size is greater than MD_USER_DATA_SIZE: after a flush a file of at
\* most that size opens with an empty root whatever block 1 holds, a larger
\* one does not open without its root block.
C24_SmallFileInMetadata ==
    [][/\ (/\ metadata.plain.size <= MD_USER_DATA_SIZE
           /\ metadata'.plain.size <= MD_USER_DATA_SIZE
           /\ OnlyMetadataBlock(disk))
          => OnlyMetadataBlock(disk')
       /\ (pc' = "idle" /\ lastOp' = "flush" /\ lastErr' = "Ok")
          => LET r == open_file(WithoutRootBlock(disk'), FileName, DefaultKey,
                                EncryptFlagsUserKey)
             IN IF disk'[0].enc.pl.size <= MD_USER_DATA_SIZE
                THEN r.err = "Ok" /\ r.root_mht = NewRoot
                ELSE r.err = "MacMismatch"]_vars

\* a file of inline data only, flushed, closed by a crash and opened again
C24_SmallFileReopened ==
    /\ lastOp = "open"
    /\ lastErr = "Ok"
    /\ nflushed >= 1
    /\ disk[0].enc.pl.size > 0
    /\ disk[0].enc.pl.size <= MD_USER_DATA_SIZE
    /\ OnlyMetadataBlock(disk)
    /\ root_mht = NewRoot

(***************************************************************************)
(* Write-ahead rule (design document 4.2, 4.7; host/journal.rs)            *)
(***************************************************************************)
\* the records of the journal partition inside the length header
DurableRecords ==
    IF jhdr >= INNER_OFFSET THEN TakeBytes(jlog, jhdr - INNER_OFFSET) ELSE <<>>

\* a Node record of block b lies on the journal partition, inside the header
HasDurableRecord(b) ==
    \E i \in 1 .. Len(DurableRecords) :
        DurableRecords[i].flag = 0 /\ DurableRecords[i].num = b

\* block b existed on disk when the running flush began
ExistedBefore(b) ==
    IF b = 0 THEN ~metadata.new_node
    ELSE IF b = 1 THEN ~root_mht.new_node
    ELSE CacheIndex(cache, b) # 0 /\ ~cache[CacheIndex(cache, b)].new_node

\* a step of a running flush that writes the data partition in place
InPlaceWrite ==
    /\ pc \in {"idle"} \cup FlushPcs
    /\ pc' \in FlushPcs
    /\ lastOp' = "flush"
    /\ disk' # disk

\* C25: write-ahead rule: at every in-place write of a flush, the metadata
\* write that sets update_flag included, a Node record of each block the step
\* overwrites lies on the journal partition inside the length header (written
\* and flushed), not only in the journal's memory buffer.
C25_WriteAhead ==
    [][InPlaceWrite
          => \A b \in PhysBlocks :
                (disk'[b] # disk[b] /\ ExistedBefore(b)) => HasDurableRecord(b)]_vars

\* C26: whenever no flush is in progress (after open or create has returned,
\* after each successful flush) the length header on the journal partition
\* denotes an empty log: a recovery started then finds no Node record to
\* replay, so no record of an earlier transaction or session is replayed again.
C26_EmptyWhenIdle ==
    pc = "idle" => \A i \in 1 .. Len(DurableRecords) : DurableRecords[i].flag # 0

(***************************************************************************)
(* Flush order (design document 4.5, 4.7 steps 3, 6, 7)                    *)
(***************************************************************************)
\* the nodes the running flush has still to write
Unwritten == {fq[i] : i \in 1 .. Len(fq)}

\* the step of a running flush that encrypts and writes node n
NodeWritten(n) ==
    /\ pc = "f6"
    /\ fq # <<>>
    /\ Head(fq) = n
    /\ pc' \in FlushPcs

\* the step of a running flush that encrypts and writes the metadata block
MetadataWritten == pc = "f7" /\ pc' = "f8a"

\* the entry the root MHT holds for data node b opens the block on disk
EntryMatchesDisk(b) ==
    DecryptOk(disk[b], root_mht.pt[b].key, root_mht.pt[b].mac, b)

MaxRecords == 3

\* the blocks the records are about: metadata, root MHT, first data node
RecordBlocks == {0, 1, DataPhys(0)}

\* two images a block can have had
BlockImages(b) ==
    IF b = 0
    THEN {MetaBlock(0, EncryptFlagsUserKey,
                    MetaEncrypt(DefaultKey,
                                MetaPayload(FileName, sz, 0, ZeroBlock, ZeroInline))) :
             sz \in {0, MD_USER_DATA_SIZE + NODE_SIZE}}
    ELSE {Encrypt(k, b, IF b = 1 THEN EmptyMht ELSE ZeroData) : k \in {1, 2}}

\* the image a block has when recovery starts
CurrentImage(b) ==
    IF b = 0
    THEN MetaBlock(1, EncryptFlagsUserKey,
                   MetaEncrypt(DefaultKey,
                               MetaPayload(FileName, MD_USER_DATA_SIZE + 2 * NODE_SIZE, 0,
                                           ZeroBlock, ZeroInline)))
    ELSE Encrypt(3, b, IF b = 1 THEN EmptyMht ELSE ZeroData)

JournalRecords ==
    UNION {{NodeRec(b, img) : img \in BlockImages(b)} : b \in RecordBlocks} \cup {CommitRec}

\* the journals recovery is called on: up to MaxRecords records, the header
\* at the end of the last record, one byte before it or one byte into it
Journals ==
    UNION {[1 .. n -> JournalRecords] : n \in 0 .. MaxRecords}

Headers(log) ==
    {h \in {INNER_OFFSET + BytesOf(log) - c : c \in {0, 1, RECOVERY_NODE_SIZE}} :
        h >= INNER_OFFSET}

InitRecovery ==
    /\ \E k \in CachePages : InitCreate(FileName, PfsDiskOptions, <<k * SE_PAGE_SIZE>>)
    /\ num = NoNumbers
    /\ jrn = NoJournalCalls
    /\ MoreInit
    /\ \E log \in Journals : \E h \in Headers(log) :
          rcv = [NoRecovery EXCEPT !.source = [b \in PhysBlocks |-> CurrentImage(b)],
                                   !.hdr = h, !.log = log]

\* recovery(source, journal) on the partitions drawn
Recover ==
    /\ ~rcv.done
    /\ \E r \in {recovery(rcv.source, rcv.hdr, rcv.log)} :
          rcv' = [rcv EXCEPT !.done = TRUE, !.out = r.out, !.disk = r.disk,
                             !.rollback_nodes = r.rollback_nodes]
    /\ UNCHANGED <<durable, pc, handle, max_cache_page, rng, ghost, lastOp, lastErr, cnt,
                   failedAt, call, bfile, num, jrn, more>>

NextRecovery == Recover

SpecRecovery == InitRecovery /\ [][NextRecovery]_vars

\* the records that lie whole inside the length header
Complete(r) ==
    {i \in 1 .. Len(r.log) : INNER_OFFSET + BytesOf(SubSeq(r.log, 1, i)) <= r.hdr}

\* the last Commit marker inside the header, 0 when there is none
LastCommit(r) ==
    LET cs == {i \in Complete(r) : r.log[i].flag = 1}
    IN IF cs = {} THEN 0 ELSE CHOOSE i \in cs : \A j \in cs : j <= i

\* the complete Node records of block b, all of them and those after the last Commit
NodeRecords(r, b) ==
    {i \in Complete(r) : r.log[i].flag = 0 /\ r.log[i].num = b}
Uncommitted(r, b) == {i \in NodeRecords(r, b) : i > LastCommit(r)}

First(S) == CHOOSE i \in S : \A j \in S : i <= j
Last(S) == CHOOSE i \in S : \A j \in S : j <= i

\* C28: the second pass writes the payload of every complete Node record
\* inside the header to its block, in log order, committed and uncommitted
\* alike; a trailing record that is not whole is not applied and ends the scan.
C28_ReplaysEveryRecord ==
    rcv.done =>
        /\ rcv.out = "ok"
        /\ \A b \in PhysBlocks :
              rcv.disk[b] = IF NodeRecords(rcv, b) = {} THEN rcv.source[b]
                            ELSE rcv.log[Last(NodeRecords(rcv, b))].data

\* C29: the rollback map has as keys exactly the data nodes with a Node record
\* after the last Commit, each with the plaintext of the first such record;
\* records before the last Commit, MHT blocks and block 0 never appear in it.
C29_RollbackMap ==
    rcv.done =>
        /\ rcv.out = "ok"
        /\ DOMAIN rcv.rollback_nodes
              = {b \in PhysBlocks : is_data_node(b) /\ Uncommitted(rcv, b) # {}}
        /\ \A b \in DOMAIN rcv.rollback_nodes :
              rcv.rollback_nodes[b] = rcv.log[First(Uncommitted(rcv, b))].data.pt

\* C30: for each physical number the first Node record after the last Commit
\* holds the block's pre-image, and after a recovery that ran to its end the
\* block of every such physical number holds the payload of that first record.
C30_FirstRecordRestored ==
    (rcv.done /\ rcv.out = "ok") =>
        \A b \in PhysBlocks :
            Uncommitted(rcv, b) # {}
               => rcv.disk[b] = rcv.log[First(Uncommitted(rcv, b))].data

(***************************************************************************)
(* recovery on a journal with a foreign flag byte (host/mod.rs 43-51)      *)
(***************************************************************************)
\* a Node record whose flag byte reads 3
CorruptRec(rec) == [rec EXCEPT !.flag = 3]

\* the journals of Journals with one of their Node records corrupted
CorruptJournals ==
    UNION {{[log EXCEPT ![i] = CorruptRec(log[i])] :
               i \in {j \in DOMAIN log : log[j].flag = 0}} : log \in Journals}

InitCorrupt ==
    /\ \E k \in CachePages : InitCreate(FileName, PfsDiskOptions, <<k * SE_PAGE_SIZE>>)
    /\ num = NoNumbers
    /\ jrn = NoJournalCalls
    /\ MoreInit
    /\ \E log \in CorruptJournals : \E h \in Headers(log) :
          rcv = [NoRecovery EXCEPT !.source = [b \in PhysBlocks |-> CurrentImage(b)],
                                   !.hdr = h, !.log = log]

SpecCorrupt == InitCorrupt /\ [][NextRecovery]_vars

\* the scan meets a flag byte other than 0 and 1: a record starts inside the
\* header length with such a byte
ForeignFlagMet(r) ==
    \E i \in DOMAIN r.log :
        /\ r.log[i].flag \notin {0, 1}
        /\ INNER_OFFSET + BytesOf(SubSeq(r.log, 1, i - 1)) < r.hdr

\* C31: when recovery meets, at a record boundary inside the log, a flag byte
\* other than 0 and 1, it returns an error to its caller and has written no
\* block of the data partition.
C31_ForeignFlagIsError ==
    (rcv.done /\ ForeignFlagMet(rcv)) =>
        /\ rcv.out = "err"
        /\ rcv.disk = rcv.source

(***************************************************************************)
(* recovery run twice on one journal (file/open.rs 256-279)                *)
(***************************************************************************)
\* the ends of the records of a log, as offsets into it
RecordEnds(log) == {BytesOf(SubSeq(log, 1, i)) : i \in 0 .. Len(log)}

\* a second open without a flush in between: recovery on the data partition
\* the first recovery left, with the journal as it was
RecoverAgain ==
    /\ rcv.done
    /\ again.run = "none"
    /\ \E r \in {recovery(rcv.disk, rcv.hdr, rcv.log)} :
          again' = [run |-> "again", start |-> rcv.disk, out |-> r.out, disk |-> r.disk,
                    rollback_nodes |-> r.rollback_nodes]
    /\ UNCHANGED <<base, rcv, not_again>>

\* a recovery cut off by a crash after the records up to cut, and the recovery
\* of the next open on what it left
RecoverInterrupted(cut) ==
    /\ rcv.done
    /\ again.run = "none"
    /\ \E d \in {recovery_until(rcv.source, rcv.hdr, rcv.log, cut)} :
          \E r \in {recovery(d, rcv.hdr, rcv.log)} :
              again' = [run |-> "interrupted", start |-> d, out |-> r.out, disk |-> r.disk,
                        rollback_nodes |-> r.rollback_nodes]
    /\ UNCHANGED <<base, rcv, not_again>>

NextTwice ==
    \/ Recover
    \/ RecoverAgain
    \/ \E cut \in RecordEnds(rcv.log) : RecoverInterrupted(cut)

SpecTwice == InitRecovery /\ [][NextTwice]_vars

Decrypted(r) == {b \in PhysBlocks : is_data_node(b) /\ Uncommitted(r, b) # {}}

\* the data-logical number of the data node at physical number b
DataLogic(b) == CHOOSE dl \in 0 .. MaxData : DataPhys(dl) = b

\* decrypt_node: the logical number it hands to get_mht_node for the parent
decrypt_node_parent(disk_physical_number) ==
    get_data_node_numbers(disk_physical_number * NODE_SIZE).logic

\* C33: the parent MHT that decrypt_node takes key and MAC from, for a
\* journaled data node with data-logical number d, is the MHT with logical
\* number d / 96, at physical 1 + 97 * (d / 96), the parent the numbering of
\* the file engine gives that node; the parent of a non-root MHT m is the MHT
\* (m - 1) / 32, smaller than m.
C33_ParentOfDecrypted ==
    rcv.done =>
        /\ \A b \in Decrypted(rcv) :
              LET d == DataLogic(b)
                  n == get_node_numbers(MD_USER_DATA_SIZE + d * NODE_SIZE)
              IN /\ decrypt_node_parent(b) = d \div 96
                 /\ decrypt_node_parent(b) = n.mht_logic
                 /\ n.mht_phys = 1 + 97 * (d \div 96)
        /\ \A m \in 1 .. MaxNode :
              /\ (m - 1) \div CHILD_MHT_NODES_COUNT = (m - 1) \div 32
              /\ (m - 1) \div CHILD_MHT_NODES_COUNT < m

\* C34: for every data-node physical number p that recovery hands to
\* decrypt_node, get_data_node_numbers(p * 4096) gives p back, so the
\* assertion holds and recovery does not panic.
C34_AssertionHolds ==
    rcv.done =>
        \A p \in Decrypted(rcv) :
            /\ get_data_node_numbers(p * 4096).physical = p
            /\ rcv.out # "panic"

\* the journals the flush protocol writes: between two Commit markers the
\* data nodes come first, then the MHT nodes, then the metadata
Rank(n) == IF n = 0 THEN 2 ELSE IF is_mht_node(n) THEN 1 ELSE 0
BottomUp(log) ==
    \A i \in DOMAIN log : \A j \in DOMAIN log :
        (/\ i < j
         /\ \A k \in i .. j : log[k].flag = 0)
            => Rank(log[i].num) <= Rank(log[j].num)

\* the raw images the handler holds when record i is reached
Collected(r, i) ==
    {r.log[j].num : j \in {k \in 1 .. i - 1 : r.log[k].flag = 0 /\ is_mht_node(r.log[k].num)}}

\* C35: on a journal written bottom-up, when recovery decrypts a data-node
\* record after the last Commit the raw images of block 0, of the root MHT
\* and of the MHTs on the node's parent chain are already collected.
C35_ImagesCollected ==
    (rcv.done /\ BottomUp(rcv.log)) =>
        \A b \in Decrypted(rcv) :
            {0, 1} \subseteq Collected(rcv, First(Uncommitted(rcv, b)))

(***************************************************************************)
(* RecoveryHandler on the images of a file made under a user key           *)
(* (host/mod.rs 146-245, tests::init_mhts)                                 *)
(***************************************************************************)
\* calls made on one handler
MaxHandlerCalls == 2

\* the keys OpenMode::UserKey is given: the all-zero key and another one
UserKeys == {DefaultKey, 1}

\* the root MHT of a file whose data nodes are encrypted under dk
RootOf(rk, dk) ==
    Encrypt(rk, 1, [p \in DataBlocks |->
                       [key |-> dk, mac |-> MacOf(Encrypt(dk, p, ZeroData))]])

\* the raw images of metadata block and root as a flush under the key writes them
RawImages(key, rk, dk, sz) ==
    [b \in {0, 1} |->
        IF b = 0
        THEN MetaBlock(0, EncryptFlagsUserKey,
                       MetaEncrypt(key, MetaPayload(FileName, sz, rk, MacOf(RootOf(rk, dk)),
                                                    ZeroInline)))
        ELSE RootOf(rk, dk)]

InitHandler ==
    /\ \E k \in CachePages : InitCreate(FileName, PfsDiskOptions, <<k * SE_PAGE_SIZE>>)
    /\ num = NoNumbers
    /\ jrn = NoJournalCalls
    /\ rcv = NoRecovery
    /\ again = NoSecondRun
    /\ geo = NoGeometry
    /\ frec = NoFileRecovery
    /\ conc = NoThreads
    /\ \E key \in UserKeys, rk \in {1, 2}, dk \in {1, 2},
          sz \in {MD_USER_DATA_SIZE + NODE_SIZE, MD_USER_DATA_SIZE + 2 * NODE_SIZE} :
          hnd = [key |-> key, raw_mhts |-> RawImages(key, rk, dk, sz), calls |-> <<>>]

\* RecoveryHandler::get_mht_node(0, UserKey): the root rebuilt from the images
HandlerRoot ==
    /\ Len(hnd.calls) < MaxHandlerCalls
    /\ \E r \in {get_mht_node(hnd.raw_mhts, 0)} :
          hnd' = [hnd EXCEPT !.calls = Append(@, [fn |-> "get_mht_node", arg |-> 0,
                                                  panic |-> r.panic])]
    /\ UNCHANGED <<base, rcv, not_hnd>>

\* RecoveryHandler::decrypt_node(p, image) on the journaled image of data node p
HandlerDecrypt(p) ==
    /\ Len(hnd.calls) < MaxHandlerCalls
    /\ \E r \in {decrypt_node(hnd.raw_mhts, p,
                              Encrypt(hnd.raw_mhts[1].pt[p].key, p, ZeroData))} :
          hnd' = [hnd EXCEPT !.calls = Append(@, [fn |-> "decrypt_node", arg |-> p,
                                                  panic |-> r.panic])]
    /\ UNCHANGED <<base, rcv, not_hnd>>

NextHandler ==
    \/ HandlerRoot
    \/ \E p \in DataBlocks : HandlerDecrypt(p)

SpecHandler == InitHandler /\ [][NextHandler]_vars

\* C36: for every user key the file was made under, the handler decrypts the
\* journaled metadata image and root and the journaled data nodes: no call on
\* it fails.
C36_AnyUserKey ==
    \A i \in DOMAIN hnd.calls : ~hnd.calls[i].panic

(***************************************************************************)
(* Block addresses of PfsDisk and the data partition (pfs_disk/mod.rs,     *)
(* file/open.rs 337-345)                                                   *)
(***************************************************************************)
\* blocks of the largest backing disk drawn
MaxDiskBlocks == 128

PFS_INNER_OFFSET == 3 * 1024

\* PfsDisk::total_data_blocks
total_data_blocks(total_blocks) == (total_blocks * 13) \div 16

\* FileInner::subdisk_for_data: the number of blocks of the data partition
subdisk_for_data(nblocks) == (nblocks * 7) \div 8

\* PfsDisk::validate_range
validate_range(total_blocks, addr) == addr < total_blocks

\* a backing disk of some size, made into a PfsDisk, and a block address
InitGeometry ==
    /\ \E k \in CachePages : InitCreate(FileName, PfsDiskOptions, <<k * SE_PAGE_SIZE>>)
    /\ num = NoNumbers
    /\ jrn = NoJournalCalls
    /\ rcv = NoRecovery
    /\ again = NoSecondRun
    /\ hnd = NoHandler
    /\ frec = NoFileRecovery
    /\ conc = NoThreads
    /\ \E n \in 0 .. MaxDiskBlocks, a \in 0 .. MaxDiskBlocks :
          geo = [NoGeometry EXCEPT !.nblocks = n, !.addr = a]

\* PfsDisk::write(addr, buf) or read(addr, buf) up to the seek: the range
\* check, the file offset, and the data node the file engine puts it in
PfsAccess ==
    /\ ~geo.done
    /\ LET offset == geo.addr * BLOCK_SIZE + PFS_INNER_OFFSET
       IN geo' = [geo EXCEPT
                    !.done = TRUE,
                    !.accepted = validate_range(total_data_blocks(geo.nblocks), geo.addr),
                    !.offset = offset,
                    !.physical = get_node_numbers(offset).data_phys,
                    !.data_nblocks = subdisk_for_data(geo.nblocks)]
    /\ UNCHANGED <<base, rcv, not_geo>>

NextGeometry == PfsAccess

SpecGeometry == InitGeometry /\ [][NextGeometry]_vars

\* C37: for every backing disk size N and every address a that PfsDisk
\* accepts, the data node holding file offset a * 4096 + 3072 has physical
\* number a + 2 + a / 96, and that number is below the size 7N / 8 of the data
\* partition.
C37_InsideDataPartition ==
    (geo.done /\ geo.accepted) =>
        /\ geo.offset = geo.addr * 4096 + 3072
        /\ geo.physical = geo.addr + 2 + geo.addr \div 96
        /\ geo.physical < (7 * geo.nblocks) \div 8

(***************************************************************************)
(* raw_file::recovery(source, recovery) on a log file (host/raw_file.rs)   *)
(* A log is a sequence of records; a Node record is its flag byte, the     *)
(* eight bytes of its number (below 256 here) and 4096 bytes that all have *)
(* the value fill, as tests::test_recovery writes them.                    *)
(***************************************************************************)
\* records in a log file
MaxFileRecords == 3

FileNode(n, fill) == [flag |-> 0, num |-> n, fill |-> fill]
FileCommit == [flag |-> 1, num |-> 0, fill |-> 0]

FileRecords == {FileNode(n, fill) : n \in 0 .. 2, fill \in {2, 3}} \cup {FileCommit}

\* the blocks of the source file
FileBlocks == 0 .. 3

FileRecLen(r) == IF r.flag = 1 THEN 1 ELSE 1 + RECOVERY_NODE_SIZE

RECURSIVE FileLen(_)
FileLen(log) == IF log = <<>> THEN 0 ELSE FileRecLen(Head(log)) + FileLen(Tail(log))

\* the byte of the log at offset off
RECURSIVE FileByte(_, _)
FileByte(log, off) ==
    IF log = <<>> THEN 0
    ELSE IF off >= FileRecLen(Head(log)) THEN FileByte(Tail(log), off - FileRecLen(Head(log)))
    ELSE IF off = 0 THEN Head(log).flag
    ELSE IF off = 1 THEN Head(log).num
    ELSE IF off <= U64_SIZE THEN 0
    ELSE Head(log).fill

\* the offsets at which a record of the log starts, and its end
FileRecordStarts(log) == {FileLen(SubSeq(log, 1, i)) : i \in 0 .. Len(log)}

\* u64::from_ne_bytes of the eight bytes at off; -1 for a number of 2^24 or more
FileNumberAt(log, off) ==
    IF \E i \in 3 .. 7 : FileByte(log, off + i) # 0 THEN -1
    ELSE FileByte(log, off) + 256 * FileByte(log, off + 1) + 65536 * FileByte(log, off + 2)

\* data_buf[8..]: the image of the record that starts at off - 1, or bytes
\* that are no record's image
FilePayloadAt(log, off) ==
    IF off - 1 \in FileRecordStarts(log) /\ FileByte(log, off - 1) = 0
    THEN [kind |-> "image", fill |-> FileByte(log, off + U64_SIZE)]
    ELSE [kind |-> "mixed", at |-> off]

\* first loop (raw_file.rs 335-354): FileStream::read at the end of the file
\* is an error, a flag byte other than 0 and 1 a panic
RECURSIVE FileFirstPass(_, _, _, _, _)
FileFirstPass(log, size, offset, last_commit_offset, aligned) ==
    IF offset > size
    THEN [out |-> "ok", last_commit_offset |-> last_commit_offset, aligned |-> aligned]
    ELSE LET al == aligned /\ offset \in FileRecordStarts(log)
         IN IF offset + 1 > size
            THEN [out |-> "err", last_commit_offset |-> last_commit_offset, aligned |-> al]
            ELSE IF FileByte(log, offset) = 0
            THEN FileFirstPass(log, size, offset + 1 + RECOVERY_NODE_SIZE,
                               last_commit_offset, al)
            ELSE IF FileByte(log, offset) = 1
            THEN FileFirstPass(log, size, offset + 1, offset + 1, al)
            ELSE [out |-> "panic", last_commit_offset |-> last_commit_offset, aligned |-> al]

\* second loop (raw_file.rs 368-406): st = [disk, set, out, aligned].  A
\* number that is no block of the source ends the run as "wild": the write
\* lands beyond the blocks of the file or the offset overflows.
RECURSIVE FileSecondPass(_, _, _, _, _)
FileSecondPass(log, size, offset, last_commit_offset, st) ==
    IF offset > size THEN st
    ELSE LET al == st.aligned /\ offset \in FileRecordStarts(log)
             off1 == offset + 1
         IN IF off1 > size THEN [st EXCEPT !.out = "err", !.aligned = al]
            ELSE IF FileByte(log, offset) \notin {0, 1}
            THEN [st EXCEPT !.out = "panic", !.aligned = al]
            ELSE IF FileByte(log, offset) = 1
            THEN FileSecondPass(log, size, off1, last_commit_offset,
                                [st EXCEPT !.aligned = al])
            ELSE IF off1 + RECOVERY_NODE_SIZE > size
            THEN [st EXCEPT !.out = "err", !.aligned = al]
            ELSE LET physical_node_number == FileNumberAt(log, off1)
                     fresh == off1 >= last_commit_offset
                 IN IF fresh /\ physical_node_number \in st.set
                    THEN FileSecondPass(log, size, off1, last_commit_offset,
                                        [st EXCEPT !.aligned = al])
                    ELSE IF physical_node_number \notin DOMAIN st.disk
                    THEN [st EXCEPT !.out = "wild", !.aligned = al]
                    ELSE FileSecondPass(log, size, off1 + RECOVERY_NODE_SIZE,
                           last_commit_offset,
                           [disk |-> [st.disk EXCEPT ![physical_node_number] =
                                         FilePayloadAt(log, off1)],
                            set |-> IF fresh THEN st.set \cup {physical_node_number}
                                    ELSE st.set,
                            out |-> st.out,
                            aligned |-> al])

\* raw_file::recovery on a log file of size bytes
file_recovery(source, log, size) ==
    LET p1 == FileFirstPass(log, size, 0, 0, TRUE)
    IN IF p1.out # "ok"
       THEN [disk |-> source, set |-> {}, out |-> p1.out, aligned |-> p1.aligned]
       ELSE FileSecondPass(log, size, 0, p1.last_commit_offset,
                           [disk |-> source, set |-> {}, out |-> "ok", aligned |-> TRUE])

\* the logs: up to MaxFileRecords records, whole, or with the last byte of a
\* trailing Node record missing
FileLogs == UNION {[1 .. n -> FileRecords] : n \in 0 .. MaxFileRecords}
FileCuts(log) == IF log # <<>> /\ log[Len(log)].flag = 0 THEN {0, 1} ELSE {0}

InitFileRecovery ==
    /\ \E k \in CachePages : InitCreate(FileName, PfsDiskOptions, <<k * SE_PAGE_SIZE>>)
    /\ num = NoNumbers
    /\ jrn = NoJournalCalls
    /\ rcv = NoRecovery
    /\ again = NoSecondRun
    /\ hnd = NoHandler
    /\ geo = NoGeometry
    /\ conc = NoThreads
    /\ \E log \in FileLogs : \E c \in FileCuts(log) :
          frec = [NoFileRecovery EXCEPT !.source = [b \in FileBlocks |-> [kind |-> "old"]],
                                        !.log = log, !.cut = c]

FileRecover ==
    /\ ~frec.done
    /\ \E r \in {file_recovery(frec.source, frec.log, FileLen(frec.log) - frec.cut)} :
          frec' = [frec EXCEPT !.done = TRUE, !.out = r.out, !.disk = r.disk,
                               !.aligned = r.aligned]
    /\ UNCHANGED <<base, rcv, not_frec>>

NextFileRecovery == FileRecover

SpecFileRecovery == InitFileRecovery /\ [][NextFileRecovery]_vars

\* the Node records before the last Commit marker, the last one of each block
FileCommitted(log) ==
    LET cs == {i \in DOMAIN log : log[i].flag = 1}
        lc == IF cs = {} THEN 0 ELSE CHOOSE i \in cs : \A j \in cs : j <= i
    IN {i \in 1 .. lc : /\ log[i].flag = 0
                        /\ \A j \in i + 1 .. lc : ~(log[j].flag = 0 /\ log[j].num = log[i].num)}

\* C38: on a well-formed log raw_file::recovery returns Ok, every source
\* block named by a Node record before the last Commit holds that record's
\* payload, and every iteration of both loops starts at a record boundary.
C38_FileRecovery ==
    (frec.done /\ frec.cut = 0) =>
        /\ frec.out = "ok"
        /\ frec.aligned
        /\ \A i \in FileCommitted(frec.log) :
              frec.disk[frec.log[i].num] = [kind |-> "image", fill |-> frec.log[i].fill]

(***************************************************************************)
(* RawJournal::flush that fails (host/journal.rs 52-63)                    *)
(***************************************************************************)
\* where the flush fails: in write_slice of the buffer, in write_slice of the
\* header, in the flush of the store
FlushFailures == {"write", "header", "sync"}

\* RawJournal::flush returning the error of its step at: flush_pos is moved
\* before the first write, the buffer is cleared after the last one
RawJournal_flush_failing(j, at) ==
    LET offset == j.flush_pos
        pos == offset + j.buf.len
        written == IF j.buf.len # 0 THEN write_slice_bytes(j.disk, offset, j.buf) ELSE j.disk
    IN IF at = "write" /\ j.buf.len # 0
       THEN [j EXCEPT !.flush_pos = pos]
       ELSE IF at \in {"write", "header"}
       THEN [j EXCEPT !.flush_pos = pos, !.disk = written]
       ELSE [j EXCEPT !.flush_pos = pos, !.disk = written, !.hdr = pos]

\* RecoveryJournal::flush that fails
JournalFlushFails(at) ==
    /\ jrn.calls < MaxJournalCalls
    /\ jrn' = [jrn EXCEPT !.j = RawJournal_flush_failing(jrn.j, at), !.calls = jrn.calls + 1,
                          !.op = "flush_failed", !.rd = NoJournalRead]
    /\ JournalUnchanged

NextJournalFail ==
    \/ JournalAppend(1)
    \/ JournalCommit(1)
    \/ JournalFlush
    \/ \E at \in FlushFailures : JournalFlushFails(at)
    \/ \E n \in ReadLens : JournalRead(0, n)

SpecJournalFail == Init /\ [][NextJournalFail]_vars

\* C39: a RawJournal::flush that fails leaves flush_pos and the buffer as
\* they were, and after a flush that then succeeds the log on disk up to the
\* header is the bytes appended, in order, without gap or duplicate.
C39_FailedFlushRetried ==
    [][/\ jrn'.op = "flush_failed" =>
             /\ jrn'.j.flush_pos = jrn.j.flush_pos
             /\ jrn'.j.buf = jrn.j.buf
       /\ jrn'.op = "flush" =>
             /\ RawJournal_size(jrn'.j).ok
             /\ RawJournal_size(jrn'.j).size = jrn'.total
             /\ LET all == [offset |-> 0, len |-> jrn'.total,
                            out |-> RawJournal_read(jrn'.j, 0, jrn'.total)]
                IN \A i \in ReadPoints(all) : ByteRead(all.out, i) = i]_vars

(***************************************************************************)
(* Threads calling read, write and sync on one PfsDisk (pfs_disk/mod.rs    *)
(* 16-27, 61-89).  The file behind the mutex is a position and the blocks  *)
(* of user data from PFS_INNER_OFFSET on.                                  *)
(***************************************************************************)
\* calls per thread
MaxThreadCalls == 2

Threads == {1, 2}
Addrs == {0, 1}
BufValues == {1, 2}

\* a lock that is handed to every thread that asks
try_lock_unguarded(holder, t) == TRUE

\* Mutex::lock returns once no other thread holds the guard
try_lock(holder, t) == holder = 0

IdleThread ==
    [pc |-> "idle", op |-> "none", addr |-> 0, buf |-> 0, res |-> 0, seen |-> 0,
     overlap |-> FALSE, calls |-> 0]

InitThreads ==
    /\ \E k \in CachePages : InitCreate(FileName, PfsDiskOptions, <<k * SE_PAGE_SIZE>>)
    /\ num = NoNumbers
    /\ jrn = NoJournalCalls
    /\ rcv = NoRecovery
    /\ again = NoSecondRun
    /\ hnd = NoHandler
    /\ geo = NoGeometry
    /\ frec = NoFileRecovery
    /\ conc = [pos |-> 0, blocks |-> [a \in Addrs |-> 0], stored |-> [a \in Addrs |-> 0],
               completed |-> [a \in Addrs |-> 0], lock |-> 0,
               thr |-> [t \in Threads |-> IdleThread]]

\* a write to addr by another thread is under way
WriteUnderWay(t, addr) ==
    \E u \in Threads \ {t} :
        conc.thr[u].op = "write" /\ conc.thr[u].addr = addr /\ conc.thr[u].pc # "idle"

\* thread t enters read(addr, buf), write(addr, buf) or sync(): the checks
\* and the offset, up to the lock
ThreadCall(t, op, addr, buf) ==
    /\ conc.thr[t].pc = "idle"
    /\ conc.thr[t].calls < MaxThreadCalls
    /\ conc' = [conc EXCEPT !.thr =
          [u \in Threads |->
              IF u = t
              THEN [pc |-> "lock", op |-> op, addr |-> addr, buf |-> buf, res |-> 0,
                    seen |-> conc.completed[addr],
                    overlap |-> WriteUnderWay(t, addr), calls |-> conc.thr[t].calls]
              ELSE IF op = "write" /\ conc.thr[u].op = "read" /\ conc.thr[u].addr = addr
                      /\ conc.thr[u].pc # "idle"
              THEN [conc.thr[u] EXCEPT !.overlap = TRUE]
              ELSE conc.thr[u]]]
    /\ UNCHANGED <<base, rcv, not_conc>>

\* self.file.lock()
ThreadLock(t) ==
    /\ conc.thr[t].pc = "lock"
    /\ try_lock(conc.lock, t)
    /\ conc' = [conc EXCEPT !.lock = t,
                            !.thr[t].pc = IF conc.thr[t].op = "sync" THEN "xfer" ELSE "seek"]
    /\ UNCHANGED <<base, rcv, not_conc>>

\* file.seek(SeekFrom::Start(offset))
ThreadSeek(t) ==
    /\ conc.thr[t].pc = "seek"
    /\ conc' = [conc EXCEPT !.pos = conc.thr[t].addr * BLOCK_SIZE + PFS_INNER_OFFSET,
                            !.thr[t].pc = "xfer"]
    /\ UNCHANGED <<base, rcv, not_conc>>

\* file.read(buf), file.write(buf) at the position of the file, file.flush()
ThreadTransfer(t) ==
    /\ conc.thr[t].pc = "xfer"
    /\ LET a == (conc.pos - PFS_INNER_OFFSET) \div BLOCK_SIZE
           op == conc.thr[t].op
       IN conc' = [conc EXCEPT
                     !.pos = IF op = "sync" THEN @ ELSE @ + BLOCK_SIZE,
                     !.blocks = IF op = "write" /\ a \in Addrs
                                THEN [@ EXCEPT ![a] = conc.thr[t].buf] ELSE @,
                     !.stored = IF op = "write"
                                THEN [@ EXCEPT ![conc.thr[t].addr] = conc.thr[t].buf] ELSE @,
                     !.thr[t].res = IF op = "read" /\ a \in Addrs THEN conc.blocks[a] ELSE 0,
                     !.thr[t].pc = "ret"]
    /\ UNCHANGED <<base, rcv, not_conc>>

\* the call returns and the guard is dropped
ThreadReturn(t) ==
    /\ conc.thr[t].pc = "ret"
    /\ conc' = [conc EXCEPT
                  !.lock = 0,
                  !.completed = IF conc.thr[t].op = "write"
                                THEN [@ EXCEPT ![conc.thr[t].addr] = conc.thr[t].buf] ELSE @,
                  !.thr[t].pc = "idle",
                  !.thr[t].calls = @ + 1]
    /\ UNCHANGED <<base, rcv, not_conc>>

NextThreads ==
    \E t \in Threads :
        \/ \E addr \in Addrs : ThreadCall(t, "read", addr, 0)
        \/ \E addr \in Addrs, buf \in BufValues : ThreadCall(t, "write", addr, buf)
        \/ ThreadCall(t, "sync", 0, 0)
        \/ ThreadLock(t)
        \/ ThreadSeek(t)
        \/ ThreadTransfer(t)
        \/ ThreadReturn(t)

SpecThreads == InitThreads /\ [][NextThreads]_vars

\* C40: with several threads calling read, write and sync on one PfsDisk,
\* the seek and the transfer of a call run under the file mutex with no other
\* call's seek in between: every write(addr, buf) stores buf at block addr,
\* and a read(addr) returns what the block holds, which is the value of the
\* last write to addr that returned before the read was called when no write
\* to addr runs beside it.
C40_SeekAndTransferAtomic ==
    /\ \A t \in Threads :
          /\ conc.thr[t].pc \in {"seek", "xfer", "ret"} => conc.lock = t
          /\ (conc.thr[t].pc = "xfer" /\ conc.thr[t].op # "sync")
                => conc.pos = conc.thr[t].addr * 4096 + 3072
          /\ (conc.thr[t].pc = "ret" /\ conc.thr[t].op = "read")
                => /\ conc.thr[t].res = conc.stored[conc.thr[t].addr]
                   /\ ~conc.thr[t].overlap => conc.thr[t].res = conc.thr[t].seen
    /\ conc.blocks = conc.stored

\* thread 2 has read at address 1 what thread 1 wrote there before, while
\* thread 1, back with a write to address 0, waits for the mutex
C40_ReadWhileOtherWaits ==
    /\ conc.thr[2].pc = "ret"
    /\ conc.thr[2].op = "read"
    /\ conc.thr[2].addr = 1
    /\ conc.thr[2].res = 2
    /\ ~conc.thr[2].overlap
    /\ conc.thr[1].pc = "lock"
    /\ conc.thr[1].op = "write"
    /\ conc.thr[1].addr = 0
    /\ conc.thr[1].calls = 1

====
